---- MODULE Spec2Model ----
(***************************************************************************)
(* Model of the OCR-D resource manager (src/src/ocrd/resource_manager.py)  *)
(* and of the helpers it uses from src/src/ocrd_utils/os.py.               *)
(*                                                                         *)
(* The specifications below share the variables:                           *)
(*   SpecDownload  the acquisition engine: download_resource and the       *)
(*                 transfers it dispatches to, one action per filesystem   *)
(*                 operation, so that intermediate states are states;      *)
(*   SpecRegistry  the registry store: constructor, list_available,        *)
(*                 list_installed, add_to_user_database, one action per    *)
(*                 call (the program is single-threaded and synchronous);  *)
(*   SpecDedup     _dedup_database as a function of bounded inputs;        *)
(*   SpecAdds      two threads inside add_to_user_database, one action per *)
(*                 file operation;                                         *)
(*   SpecArchives  two _download_archive calls of one process or of two,   *)
(*                 one action per working-directory or file operation;     *)
(*   SpecLoad      load_resource_list as a function of bounded inputs;     *)
(*   SpecDiscovery list_available with tools whose --dump-json output may  *)
(*                 be unusable;                                            *)
(*   SpecCandidates list_resource_candidates as a function of its          *)
(*                 arguments, the environment and the working directory;   *)
(*   SpecListAll   list_all_resources as a function of the tool's declared *)
(*                 locations, the environment and the directories on disk; *)
(*   SpecUnwrap    the sharing-service stage of _download_impl, one action *)
(*                 per statement that can raise;                           *)
(*   SpecDestination the destination path of download_resource as a        *)
(*                 function of its arguments;                              *)
(*   SpecServer    the endpoints of the resource manager server, each one  *)
(*                 call on the server's manager.                           *)
(***************************************************************************)
EXTENDS Integers, Sequences, FiniteSets, TLC

VARIABLES
    \* ---- acquisition engine ----
    pc,         \* position inside download_resource ("idle" between calls)
    args,       \* arguments and environment of the current (or last) call
    fs,         \* the filesystem: destination, its parent, the temporary directory
    cwd,        \* the process working directory: "orig" (where the program
                \* was started), "gone" (that directory after its removal),
                \* "systmp" (gettempdir()), "tmp" or "out"
    pos,        \* number of chunks / entries transferred by the running loop
    exc,        \* an exception is propagating through _download_archive
    result,     \* the value returned by the last call ("fpath" or "none")
    fs0,        \* history: the filesystem when the current call started
    transferred,\* history: the current call started a transfer
    ncalls,     \* number of calls started
    repeat,     \* history: the current call repeats the arguments of the
                \* previous call, which returned normally after a transfer
    \* ---- registry store ----
    rpc,        \* "new" before construction, "ready" after
    database,   \* self.database: tool -> list of descriptors
    userFile,   \* the user list file: [exists, content]
    toolRes,    \* the cached introspection result of every tool (lru_cache)
    bundled,    \* the bundled, read-only resource list
    disk,       \* resources installed on disk, per tool
    lastOp,     \* history: the last registry operation, its arguments and result
    writes,     \* history: every content written to the user list file
    userAtCtor, \* history: the user list as loaded by the last constructor
    nops,       \* number of registry operations performed
    dumpJson,   \* what '<tool> --dump-json' does, per tool ("object" when absent)
    \* ---- _dedup_database as a function ----
    ddIn,       \* the database given to _dedup_database
    ddOut,      \* its result
    ddTwice,    \* the result of a second application
    ddDone,     \* the function has been applied
    \* ---- calls interleaved by threads, and functions of their arguments ----
    thr,        \* the threads running add_to_user_database
    arc,        \* the threads running _download_archive and the directories they use
    ld,         \* load_resource_list: its arguments and outcome
    rc          \* the call of a function modelled by itself (list_resource_candidates,
                \* list_all_resources, the destination of download_resource, the
                \* sharing-service stage of _download_impl): its inputs and outcome

dlVars == <<pc, args, fs, cwd, pos, exc, result, fs0, transferred, ncalls, repeat>>
regVars == <<rpc, database, userFile, toolRes, bundled, disk, lastOp, writes, userAtCtor, nops, dumpJson>>
ddVars == <<ddIn, ddOut, ddTwice, ddDone>>
extVars == <<thr, arc, ld, rc>>
vars == <<dlVars, regVars, ddVars, extVars>>

(***************************************************************************)
(* Bounds                                                                  *)
(***************************************************************************)
MaxChunks == 2
MaxEntries == 2
MaxCalls == 2
MaxOps == 3
MaxList == 3
MaxPathDirs == 2
MaxUrlLen == 3

(***************************************************************************)
(* Filesystem nodes.  A path holds nothing, a file (a sequence of chunks   *)
(* of at most 4096 bytes each) or a directory (a set of entries).  Chunk   *)
(* and entry 0 stand for content that was there before the call.           *)
(***************************************************************************)
NoNode == [kind |-> "none", data |-> <<>>, entries |-> {}]
FileNode(d) == [kind |-> "file", data |-> d, entries |-> {}]
DirNode(e) == [kind |-> "dir", data |-> <<>>, entries |-> e]

Exists(n) == n.kind # "none"
IsDir(n) == n.kind = "dir"
IsFile(n) == n.kind = "file"

NewData(k) == [i \in 1..k |-> i]
NewFiles == {FileNode(NewData(k)) : k \in 0..MaxChunks}
NewDirs == {DirNode(1..k) : k \in 0..MaxEntries}
OldNodes == {NoNode, FileNode(<<0>>), DirNode({0}), DirNode({})}

NoTmp == [exists |-> FALSE, archive |-> NoNode, out |-> "none", stray |-> NoNode]

MimeTypes == {"application/zip", "application/gzip", "application/x-xz", "application/octet-stream"}
SupportedMime(m) == m \in {"application/zip", "application/gzip", "application/x-xz"}

(***************************************************************************)
(* Arguments of download_resource together with what its url points at.   *)
(*   http     the url starts with http:// or https://                      *)
(*   absBase  basedir is an absolute path                                  *)
(*   absUrl   a local url is an absolute path                              *)
(*   src      what the url holds: the response body of an http url, the    *)
(*            file or directory at a local url (NoNode: nothing there)     *)
(*   mime     for an archive, the media type sniffed from its content      *)
(*   member   for an archive, what path_in_archive names after extraction  *)
(* Relative paths matter only where the working directory changes, which   *)
(* is in archive mode; the other modes are listed with absolute paths.     *)
(***************************************************************************)
LocalSources == {NoNode} \cup NewFiles \cup NewDirs
Members == {NoNode} \cup (NewFiles \ {FileNode(<<>>)}) \cup NewDirs

PlainArgs ==
    [overwrite : BOOLEAN, rtype : {"file", "directory"}, http : {TRUE}, absBase : {TRUE},
     absUrl : {TRUE}, src : NewFiles, mime : {"application/octet-stream"}, member : {NoNode}]
    \cup
    [overwrite : BOOLEAN, rtype : {"file", "directory"}, http : {FALSE}, absBase : {TRUE},
     absUrl : {TRUE}, src : LocalSources, mime : {"application/octet-stream"}, member : {NoNode}]

ArchiveSources == {FileNode(NewData(MaxChunks))}

\* mime and member are read only once a file has been transferred into the
\* temporary directory, and member only after a supported type was sniffed;
\* where they are not read they are listed with one value.
ArchiveArgs ==
    {a \in [overwrite : BOOLEAN, rtype : {"archive"}, http : BOOLEAN, absBase : BOOLEAN,
            absUrl : BOOLEAN, src : ArchiveSources \cup {NoNode, DirNode({})},
            mime : MimeTypes, member : Members] :
        /\ a.http => (a.absUrl /\ a.src \in ArchiveSources)
        /\ ~(IsFile(a.src) /\ (a.http \/ a.absUrl)) => a.mime = "application/octet-stream"
        /\ ~SupportedMime(a.mime) => a.member = NoNode}

CallArgs == PlainArgs \cup ArchiveArgs

NoArgs ==
    [overwrite |-> FALSE, rtype |-> "file", http |-> TRUE, absBase |-> TRUE, absUrl |-> TRUE,
     src |-> NoNode, mime |-> "application/octet-stream", member |-> NoNode]

\* What the source path of the transfer resolves to.  _download_archive runs
\* the transfer inside the fresh temporary directory, where a relative local
\* url names nothing.
EffSrc(a) ==
    IF a.rtype = "archive" /\ ~a.http /\ ~a.absUrl THEN NoNode ELSE a.src

\* The path _download_impl / _copy_impl write to: fpath, or 'download.tar.xx'
\* in the temporary directory.
Target(f, a) == IF a.rtype = "archive" THEN f.tmp.archive ELSE f.dest
SetTarget(f, a, n) ==
    IF a.rtype = "archive" THEN [f EXCEPT !.tmp.archive = n] ELSE [f EXCEPT !.dest = n]

\* The path copytree / copy write to at the end of _download_archive: str(fpath)
\* resolved against the working directory, which is then <tmp>/out.
FinalTarget(f, a) == IF a.absBase THEN f.dest ELSE f.tmp.stray
SetFinalTarget(f, a, n) ==
    IF a.absBase THEN [f EXCEPT !.dest = n] ELSE [f EXCEPT !.tmp.stray = n]

\* download_resource, lines 361-366: the soft no-op.
SkipDownloadNever(exists, overwrite) == FALSE
SkipDownload(exists, overwrite) == exists /\ ~overwrite

\* download_resource, lines 367-372: rmtree / unlink of the existing destination.
RemoveExistingKeep(n) == n
RemoveExisting(n) == NoNode

\* _download_impl, lines 284-285: rmtree(filename, ignore_errors=True), which
\* removes a directory and fails silently on a file, then unlink(missing_ok=True),
\* which removes a file.
RmtreeIgnoreErrors(n) == IF IsDir(n) THEN NoNode ELSE n
UnlinkMissingOk(n) == IF IsFile(n) THEN NoNode ELSE n
CleanupPartialRmtreeOnly(n) == RmtreeIgnoreErrors(n)
CleanupPartial(n) == UnlinkMissingOk(RmtreeIgnoreErrors(n))

\* Path(dst).mkdir(parents=True, exist_ok=True): an existing directory is kept
\* with its entries.
MkdirExistOk(n) == IF IsDir(n) THEN n ELSE DirNode({})

\* _copy_dir, lines 307-312: the recursive calls pass (child, child_dst,
\* progress_cb) to functions whose first parameter is the logger, so the
\* callee's first statement, log.info(...), raises AttributeError on the Path.
CopyChildRaises == TRUE

\* Where control goes when a transfer has finished or raised.
AfterTransfer(a) == IF a.rtype = "archive" THEN "ar_mkout" ELSE "ret"
Propagate(a) == IF a.rtype = "archive" THEN "ar_cleanup" ELSE "raised"

(***************************************************************************)
(* download_resource                                                       *)
(***************************************************************************)
InitDownload ==
    /\ pc = "idle"
    /\ args = NoArgs
    /\ \E d \in OldNodes, dd \in BOOLEAN, o \in BOOLEAN :
          /\ Exists(d) => dd
          /\ fs = [dest |-> d, destdir |-> dd, tmp |-> NoTmp, orig |-> o]
          /\ cwd = IF o THEN "orig" ELSE "gone"
    /\ pos = 0
    /\ exc = FALSE
    /\ result = "none"
    /\ fs0 = fs
    /\ transferred = FALSE
    /\ ncalls = 0
    /\ repeat = FALSE

\* lines 348-360: the call with its arguments; fpath is computed.
Call ==
    /\ pc = "idle"
    /\ ncalls < MaxCalls
    /\ \E a \in CallArgs :
          \* relative paths are listed only where the start directory exists
          /\ ~fs.orig => (a.absBase /\ a.absUrl)
          /\ args' = a
          /\ repeat' = (ncalls > 0 /\ a = args /\ result = "fpath" /\ transferred)
    /\ pc' = "check"
    /\ fs0' = fs
    /\ transferred' = FALSE
    /\ result' = "none"
    /\ exc' = FALSE
    /\ pos' = 0
    /\ ncalls' = ncalls + 1
    /\ UNCHANGED <<fs, cwd>>

\* lines 361-372
CheckExisting ==
    /\ pc = "check"
    /\ IF SkipDownload(Exists(fs.dest), args.overwrite)
          THEN /\ result' = "fpath"
               /\ pc' = "returned"
               /\ fs' = fs
          ELSE /\ fs' = IF Exists(fs.dest) THEN [fs EXCEPT !.dest = RemoveExisting(fs.dest)] ELSE fs
               /\ pc' = "mkdir"
               /\ result' = result
    /\ UNCHANGED <<args, cwd, pos, exc, fs0, transferred, ncalls, repeat>>

\* lines 373-380: destdir.mkdir(parents=True, exist_ok=True) and the dispatch
MkDestdir ==
    /\ pc = "mkdir"
    /\ fs' = [fs EXCEPT !.destdir = TRUE]
    /\ transferred' = TRUE
    /\ pc' = IF args.rtype = "archive" THEN "ar_pushd"
             ELSE IF args.http THEN "dl_parse" ELSE "cp_dispatch"
    /\ UNCHANGED <<args, cwd, pos, exc, result, fs0, ncalls, repeat>>

\* line 381
Return ==
    /\ pc = "ret"
    /\ result' = "fpath"
    /\ pc' = "returned"
    /\ UNCHANGED <<args, fs, cwd, pos, exc, fs0, transferred, ncalls, repeat>>

\* the caller goes on after a return or an exception
Done ==
    /\ pc \in {"returned", "raised"}
    /\ pc' = "idle"
    /\ UNCHANGED <<args, fs, cwd, pos, exc, result, fs0, transferred, ncalls, repeat>>

(***************************************************************************)
(* _download_impl                                                          *)
(***************************************************************************)
\* lines 266-275: the sharing-service link is inspected and unwrapped
DlParse ==
    /\ pc = "dl_parse"
    /\ pc' = "dl_open"
    /\ UNCHANGED <<args, fs, cwd, pos, exc, result, fs0, transferred, ncalls, repeat>>

\* line 276: open(filename, 'wb') creates the file, empty
DlOpenFile ==
    /\ pc = "dl_open"
    /\ fs' = SetTarget(fs, args, FileNode(<<>>))
    /\ pc' = "dl_get"
    /\ UNCHANGED <<args, cwd, pos, exc, result, fs0, transferred, ncalls, repeat>>

\* lines 277-278: requests.get(url, stream=True) and raise_for_status()
DlGet ==
    /\ pc = "dl_get"
    /\ pos' = 0
    /\ pc' = "dl_chunk"
    /\ UNCHANGED <<args, fs, cwd, exc, result, fs0, transferred, ncalls, repeat>>

\* lines 279-282: one chunk of the response body is written, or the body has ended
DlChunk ==
    /\ pc = "dl_chunk"
    /\ IF pos < Len(EffSrc(args).data)
          THEN /\ fs' = SetTarget(fs, args,
                          FileNode(Append(Target(fs, args).data, EffSrc(args).data[pos + 1])))
               /\ pos' = pos + 1
               /\ pc' = pc
          ELSE /\ pc' = AfterTransfer(args)
               /\ UNCHANGED <<fs, pos>>
    /\ UNCHANGED <<args, cwd, exc, result, fs0, transferred, ncalls, repeat>>

\* line 283: any statement of the try block raises (the link inspection, the
\* open, the connection, a bad status, the stream after some chunks, the
\* progress callback, the write)
DlFault ==
    /\ pc \in {"dl_parse", "dl_open", "dl_get", "dl_chunk"}
    /\ pc' = "dl_cleanup"
    /\ UNCHANGED <<args, fs, cwd, pos, exc, result, fs0, transferred, ncalls, repeat>>

\* lines 284-286: the partial file is removed and the exception re-raised
DlCleanup ==
    /\ pc = "dl_cleanup"
    /\ fs' = SetTarget(fs, args, CleanupPartial(Target(fs, args)))
    /\ exc' = TRUE
    /\ pc' = Propagate(args)
    /\ UNCHANGED <<args, cwd, pos, result, fs0, transferred, ncalls, repeat>>

(***************************************************************************)
(* _copy_impl, _copy_file, _copy_dir                                       *)
(***************************************************************************)
\* line 317
CpDispatch ==
    /\ pc = "cp_dispatch"
    /\ pc' = IF IsDir(EffSrc(args)) THEN "cpdir_mkdir" ELSE "cpfile_open_dst"
    /\ UNCHANGED <<args, fs, cwd, pos, exc, result, fs0, transferred, ncalls, repeat>>

\* lines 304-306
CpDirMkdir ==
    /\ pc = "cpdir_mkdir"
    /\ fs' = SetTarget(fs, args, MkdirExistOk(Target(fs, args)))
    /\ pc' = "cpdir_iter"
    /\ UNCHANGED <<args, cwd, pos, exc, result, fs0, transferred, ncalls, repeat>>

\* lines 307-312: the first child of the source raises in the recursive call;
\* a source without children is done
CpDirIter ==
    /\ pc = "cpdir_iter"
    /\ IF EffSrc(args).entries # {} /\ CopyChildRaises
          THEN /\ exc' = TRUE
               /\ pc' = Propagate(args)
               /\ UNCHANGED <<fs, pos>>
          ELSE /\ fs' = SetTarget(fs, args, DirNode(Target(fs, args).entries \cup EffSrc(args).entries))
               /\ pos' = Cardinality(EffSrc(args).entries)
               /\ pc' = AfterTransfer(args)
               /\ exc' = exc
    /\ UNCHANGED <<args, cwd, result, fs0, transferred, ncalls, repeat>>

\* line 291, first context manager: open(dst, 'wb') creates the file, empty
CpFileOpenDst ==
    /\ pc = "cpfile_open_dst"
    /\ fs' = SetTarget(fs, args, FileNode(<<>>))
    /\ pc' = "cpfile_open_src"
    /\ UNCHANGED <<args, cwd, pos, exc, result, fs0, transferred, ncalls, repeat>>

\* line 291, second context manager: open(src, 'rb') raises FileNotFoundError
\* when nothing is at src; nothing removes dst
CpFileOpenSrc ==
    /\ pc = "cpfile_open_src"
    /\ IF IsFile(EffSrc(args))
          THEN /\ pc' = "cpfile_chunk"
               /\ exc' = exc
          ELSE /\ exc' = TRUE
               /\ pc' = Propagate(args)
    /\ pos' = 0
    /\ UNCHANGED <<args, fs, cwd, result, fs0, transferred, ncalls, repeat>>

\* lines 292-299: one chunk is read and written, or the source has ended
CpFileChunk ==
    /\ pc = "cpfile_chunk"
    /\ IF pos < Len(EffSrc(args).data)
          THEN /\ fs' = SetTarget(fs, args,
                          FileNode(Append(Target(fs, args).data, EffSrc(args).data[pos + 1])))
               /\ pos' = pos + 1
               /\ pc' = pc
          ELSE /\ pc' = AfterTransfer(args)
               /\ UNCHANGED <<fs, pos>>
    /\ UNCHANGED <<args, cwd, exc, result, fs0, transferred, ncalls, repeat>>

\* a read or a write of the copy loop raises (I/O error, disk full); no
\* handler is around the copy, so the exception leaves download_resource
CpFault ==
    /\ pc = "cpfile_chunk"
    /\ exc' = TRUE
    /\ pc' = Propagate(args)
    /\ UNCHANGED <<args, fs, cwd, pos, result, fs0, transferred, ncalls, repeat>>

(***************************************************************************)
(* _download_archive with pushd_popd (ocrd_utils/os.py)                    *)
(***************************************************************************)
\* line 324, os.py lines 55-63: a fresh temporary directory becomes the
\* working directory; lines 325-328 dispatch the transfer of the archive
ArPushd ==
    /\ pc = "ar_pushd"
    /\ fs' = [fs EXCEPT !.tmp = [exists |-> TRUE, archive |-> NoNode, out |-> "none", stray |-> NoNode]]
    /\ cwd' = "tmp"
    /\ pc' = IF args.http THEN "dl_parse" ELSE "cp_dispatch"
    /\ UNCHANGED <<args, pos, exc, result, fs0, transferred, ncalls, repeat>>

\* line 329
ArMkOut ==
    /\ pc = "ar_mkout"
    /\ fs' = [fs EXCEPT !.tmp.out = "empty"]
    /\ pc' = "ar_pushd_out"
    /\ UNCHANGED <<args, cwd, pos, exc, result, fs0, transferred, ncalls, repeat>>

\* line 330, os.py lines 65-67
ArPushdOut ==
    /\ pc = "ar_pushd_out"
    /\ cwd' = "out"
    /\ pc' = "ar_extract"
    /\ UNCHANGED <<args, fs, pos, exc, result, fs0, transferred, ncalls, repeat>>

\* lines 331-340: the media type is sniffed from the archive's content and the
\* archive extracted; any other type (or an archive that is no file) raises
ArExtract ==
    /\ pc = "ar_extract"
    /\ IF IsFile(fs.tmp.archive) /\ SupportedMime(args.mime)
          THEN /\ fs' = [fs EXCEPT !.tmp.out = "extracted"]
               /\ pc' = "ar_copy"
               /\ exc' = exc
          ELSE /\ exc' = TRUE
               /\ pc' = "ar_popd_in"
               /\ fs' = fs
    /\ UNCHANGED <<args, cwd, pos, result, fs0, transferred, ncalls, repeat>>

\* lines 341-345: copytree creates the target directory (with its parents) and
\* refuses an existing one; copy needs the target's parent to exist, which
\* under <tmp>/out it does not, and a source that exists
ArCopy ==
    /\ pc = "ar_copy"
    /\ pos' = 0
    /\ IF IsDir(args.member)
          THEN IF Exists(FinalTarget(fs, args))
                  THEN /\ exc' = TRUE
                       /\ pc' = "ar_popd_in"
                       /\ fs' = fs
                  ELSE /\ fs' = SetFinalTarget(fs, args, DirNode({}))
                       /\ pc' = "ar_copytree"
                       /\ exc' = exc
          ELSE IF IsFile(args.member) /\ args.absBase
                  THEN /\ fs' = SetFinalTarget(fs, args, FileNode(<<>>))
                       /\ pc' = "ar_copyfile"
                       /\ exc' = exc
                  ELSE /\ exc' = TRUE
                       /\ pc' = "ar_popd_in"
                       /\ fs' = fs
    /\ UNCHANGED <<args, cwd, result, fs0, transferred, ncalls, repeat>>

\* line 343, copytree: one entry of the directory is copied, or all are
ArCopyTreeEntry ==
    /\ pc = "ar_copytree"
    /\ IF pos < Cardinality(args.member.entries)
          THEN /\ fs' = SetFinalTarget(fs, args,
                          DirNode(FinalTarget(fs, args).entries \cup {pos + 1}))
               /\ pos' = pos + 1
               /\ pc' = pc
          ELSE /\ pc' = "ar_popd_in"
               /\ UNCHANGED <<fs, pos>>
    /\ UNCHANGED <<args, cwd, exc, result, fs0, transferred, ncalls, repeat>>

\* line 345, copy: the content is written to the opened target
ArCopyFile ==
    /\ pc = "ar_copyfile"
    /\ fs' = SetFinalTarget(fs, args, args.member)
    /\ pc' = "ar_popd_in"
    /\ UNCHANGED <<args, cwd, pos, exc, result, fs0, transferred, ncalls, repeat>>

\* the extraction (corrupt archive) or the final copy (I/O error, disk full)
\* raises part-way
ArFault ==
    /\ pc \in {"ar_extract", "ar_copytree", "ar_copyfile"}
    /\ exc' = TRUE
    /\ pc' = "ar_popd_in"
    /\ UNCHANGED <<args, fs, cwd, pos, result, fs0, transferred, ncalls, repeat>>

\* os.py lines 68-69, inner pushd_popd('out'): back to the temporary directory
ArPopdIn ==
    /\ pc = "ar_popd_in"
    /\ cwd' = "tmp"
    /\ pc' = "ar_cleanup"
    /\ UNCHANGED <<args, fs, pos, exc, result, fs0, transferred, ncalls, repeat>>

\* a with block that leaves the temporary directory behind
ArCleanupKeeping ==
    /\ pc = "ar_cleanup"
    /\ pc' = "ar_popd_out"
    /\ UNCHANGED <<args, fs, cwd, pos, exc, result, fs0, transferred, ncalls, repeat>>

\* os.py line 61: TemporaryDirectory removes the directory on leaving the with
ArCleanup ==
    /\ pc = "ar_cleanup"
    /\ fs' = [fs EXCEPT !.tmp = NoTmp]
    /\ pc' = "ar_popd_out"
    /\ UNCHANGED <<args, cwd, pos, exc, result, fs0, transferred, ncalls, repeat>>

\* pushd_popd(tempdir=True) without the chdir of its finally clause
ArPopdOutStaying ==
    /\ pc = "ar_popd_out"
    /\ cwd' = cwd
    /\ pc' = IF exc THEN "raised" ELSE "ret"
    /\ UNCHANGED <<args, fs, pos, exc, result, fs0, transferred, ncalls, repeat>>

\* os.py lines 68-69, outer pushd_popd(tempdir=True): back to oldcwd, which
\* lines 54-58 took from getcwd(), or from gettempdir() when the working
\* directory no longer existed
ArPopdOut ==
    /\ pc = "ar_popd_out"
    /\ cwd' = IF fs.orig THEN "orig" ELSE "systmp"
    /\ pc' = IF exc THEN "raised" ELSE "ret"
    /\ UNCHANGED <<args, fs, pos, exc, result, fs0, transferred, ncalls, repeat>>

(***************************************************************************)
(* The acquisition engine's specification                                  *)
(***************************************************************************)
RegIdle ==
    /\ rpc = "off"
    /\ database = <<>>
    /\ userFile = [exists |-> FALSE, content |-> <<>>]
    /\ toolRes = <<>>
    /\ bundled = <<>>
    /\ disk = <<>>
    /\ lastOp = <<>>
    /\ writes = <<>>
    /\ userAtCtor = <<>>
    /\ nops = 0
    /\ dumpJson = <<>>

DdIdle ==
    /\ ddIn = <<>>
    /\ ddOut = <<>>
    /\ ddTwice = <<>>
    /\ ddDone = FALSE

AddsIdle == thr = <<>>
ArchivesIdle == arc = <<>>
LoadIdle == ld = <<>>
CandidatesIdle == rc = <<>>
ExtIdle == AddsIdle /\ ArchivesIdle /\ LoadIdle /\ CandidatesIdle

NextDownload ==
    \/ (Call /\ UNCHANGED <<regVars, ddVars, extVars>>)
    \/ (CheckExisting /\ UNCHANGED <<regVars, ddVars, extVars>>)
    \/ (MkDestdir /\ UNCHANGED <<regVars, ddVars, extVars>>)
    \/ (Return /\ UNCHANGED <<regVars, ddVars, extVars>>)
    \/ (Done /\ UNCHANGED <<regVars, ddVars, extVars>>)
    \/ (DlParse /\ UNCHANGED <<regVars, ddVars, extVars>>)
    \/ (DlOpenFile /\ UNCHANGED <<regVars, ddVars, extVars>>)
    \/ (DlGet /\ UNCHANGED <<regVars, ddVars, extVars>>)
    \/ (DlChunk /\ UNCHANGED <<regVars, ddVars, extVars>>)
    \/ (DlFault /\ UNCHANGED <<regVars, ddVars, extVars>>)
    \/ (DlCleanup /\ UNCHANGED <<regVars, ddVars, extVars>>)
    \/ (CpDispatch /\ UNCHANGED <<regVars, ddVars, extVars>>)
    \/ (CpDirMkdir /\ UNCHANGED <<regVars, ddVars, extVars>>)
    \/ (CpDirIter /\ UNCHANGED <<regVars, ddVars, extVars>>)
    \/ (CpFileOpenDst /\ UNCHANGED <<regVars, ddVars, extVars>>)
    \/ (CpFileOpenSrc /\ UNCHANGED <<regVars, ddVars, extVars>>)
    \/ (CpFileChunk /\ UNCHANGED <<regVars, ddVars, extVars>>)
    \/ (CpFault /\ UNCHANGED <<regVars, ddVars, extVars>>)
    \/ (ArPushd /\ UNCHANGED <<regVars, ddVars, extVars>>)
    \/ (ArMkOut /\ UNCHANGED <<regVars, ddVars, extVars>>)
    \/ (ArPushdOut /\ UNCHANGED <<regVars, ddVars, extVars>>)
    \/ (ArExtract /\ UNCHANGED <<regVars, ddVars, extVars>>)
    \/ (ArCopy /\ UNCHANGED <<regVars, ddVars, extVars>>)
    \/ (ArCopyTreeEntry /\ UNCHANGED <<regVars, ddVars, extVars>>)
    \/ (ArCopyFile /\ UNCHANGED <<regVars, ddVars, extVars>>)
    \/ (ArFault /\ UNCHANGED <<regVars, ddVars, extVars>>)
    \/ (ArPopdIn /\ UNCHANGED <<regVars, ddVars, extVars>>)
    \/ (ArCleanup /\ UNCHANGED <<regVars, ddVars, extVars>>)
    \/ (ArPopdOut /\ UNCHANGED <<regVars, ddVars, extVars>>)

\* the initial states: the other parts of the program are at rest
StartDownload == InitDownload /\ RegIdle /\ DdIdle /\ ExtIdle

SpecDownload == StartDownload /\ [][NextDownload]_vars

(***************************************************************************)
(* Claims about the acquisition engine, checked under SpecDownload         *)
(***************************************************************************)
\* The resource the call is to put at the destination: the response body, the
\* file or directory at the local url, or the archive entry path_in_archive.
NewResource(a) == IF a.rtype = "archive" THEN a.member ELSE EffSrc(a)

PlainType(a) == a.rtype \in {"file", "directory"}

\* C1: a call with overwrite=False whose destination already exists goes
\* straight from the existence check to the return: it returns the destination
\* path, starts no transfer, cannot raise, and the filesystem (destination,
\* its parent directory, temporary directory) stays as it was when the call
\* started; so a repetition of a successful call returns the same path and
\* changes nothing.
C1_SoftNoOp ==
    /\ (Exists(fs0.dest) /\ ~args.overwrite) =>
          /\ pc \in {"idle", "check", "returned"}
          /\ fs = fs0
          /\ ~transferred
          /\ (pc = "returned" => result = "fpath")
    /\ (repeat /\ pc = "returned") => (result = "fpath" /\ fs = fs0)

\* C1 witness: the second of two calls with the same arguments, the first of
\* which transferred the resource, has returned through the soft no-op.
C1_Witness ==
    /\ pc = "returned"
    /\ repeat
    /\ Exists(fs0.dest)
    /\ ~args.overwrite
    /\ ~transferred
    /\ result = "fpath"
    /\ fs = fs0

\* C2: when the http(s) transfer of a file or directory resource has raised,
\* the exception has reached the caller and nothing is at the destination
\* path, neither a file nor a directory.
C2_FailedHttpLeavesNothing ==
    (pc = "raised" /\ args.http /\ PlainType(args)) => (exc /\ ~Exists(fs.dest))

\* C2 witness: the stream failed after at least one chunk had been written to
\* the destination, and the call has raised with the destination removed.
C2_Witness ==
    /\ pc = "raised"
    /\ args.http
    /\ PlainType(args)
    /\ pos >= 1
    /\ ~Exists(fs.dest)

\* C3 as claimed: when a local copy or an archive acquisition has raised,
\* nothing is at the destination path.
C3_LocalFailureRolledBack ==
    (pc = "raised" /\ (~args.http \/ args.rtype = "archive")) => ~Exists(fs.dest)

\* C4 as claimed: in every state of a call, the destination path holds
\* nothing, its complete previous content or the complete new resource.
C4_AtomicPlacement ==
    pc # "idle" => fs.dest \in {NoNode, fs0.dest, NewResource(args)}

\* C5 as claimed: after a call with overwrite=True onto an existing
\* destination has returned, the destination holds exactly the new resource.
C5_OverwriteReplaces ==
    (pc = "returned" /\ args.overwrite /\ Exists(fs0.dest)) => fs.dest = NewResource(args)

\* C22: a call that copies a local directory as resource_type 'directory'
\* ends by returning, with exactly the source's entries at the destination,
\* for an empty source as for one with entries.
C22_DirectoryTreeCopied ==
    (/\ pc \in {"returned", "raised"}
     /\ transferred
     /\ args.rtype = "directory"
     /\ ~args.http
     /\ IsDir(args.src))
    => (pc = "returned" /\ fs.dest = args.src)

\* C24: outside a call and once a call has returned or raised, no temporary
\* working directory exists; an archive call that got as far as a transfer
\* returns only if the sniffed media type is a supported one.
C24_TempDirAlwaysRemoved ==
    /\ pc \in {"idle", "returned", "raised"} => ~fs.tmp.exists
    /\ (pc = "returned" /\ args.rtype = "archive" /\ transferred) => SupportedMime(args.mime)

\* C24 witness: an archive of an unsupported media type was transferred
\* completely, the call has raised and the temporary directory is gone.
C24_Witness ==
    /\ pc = "raised"
    /\ args.rtype = "archive"
    /\ IsFile(EffSrc(args))
    /\ pos = Len(EffSrc(args).data)
    /\ ~SupportedMime(args.mime)
    /\ ~fs.tmp.exists

\* C27: whenever a call has returned, something exists at the destination
\* path as the caller's working directory resolves it.
C27_ReturnedPathExists ==
    pc = "returned" => Exists(fs.dest)

\* C28 as claimed: when the first archive call of the process has ended, the
\* working directory is the one the process had before it.
C28_CwdRestored ==
    (pc \in {"returned", "raised"} /\ args.rtype = "archive" /\ ncalls = 1)
    => cwd = IF fs.orig THEN "orig" ELSE "gone"

\* C28 as amended: when an archive call has ended, by return or by
\* exception, the working directory is the one from before the call if that
\* directory existed when the call started; if it had been removed, the
\* working directory is the system's temporary directory once the call has
\* entered its own temporary directory, and untouched on the soft no-op.
C28_CwdRestoredOrSystemTmp ==
    (pc \in {"returned", "raised"} /\ args.rtype = "archive")
    => IF fs.orig THEN cwd = "orig"
       ELSE IF transferred THEN cwd = "systmp"
       ELSE cwd \in {"gone", "systmp"} /\ (ncalls = 1 => cwd = "gone")

\* C28 witness: an archive call from an existing directory has raised after
\* it had entered its temporary directory, which is gone, and the working
\* directory is the original one.
C28_Witness ==
    /\ pc = "raised"
    /\ args.rtype = "archive"
    /\ fs.orig
    /\ SupportedMime(args.mime)
    /\ exc
    /\ ~fs.tmp.exists
    /\ transferred
    /\ cwd = "orig"

(***************************************************************************)
(* The registry store.  A database maps tool names to lists of             *)
(* descriptors; the value <<>> is the empty dict, which Python treats like *)
(* an argument that was not given (`if not database`).  A descriptor       *)
(* carries the keys the registry operations read; path tells whether the   *)
(* 'path' key is present.  "" stands for None and for the empty string.    *)
(***************************************************************************)
Tools == {"ocrd-a", "ocrd-b"}
Names == {"m1", "m2"}

Desc(n, u, d) == [name |-> n, url |-> u, description |-> d, path |-> FALSE]

\* list_available, line 119
SkipExecutables == {"ocrd-cis-data", "ocrd-import", "ocrd-make"}

\* fnmatch on a tool name: the patterns used are a literal name and 'ocrd-*'
Matches(pattern, k) == pattern = "ocrd-*" \/ pattern = k

\* The element of a one-element set.  { F(x) : x \in {e} } evaluates e once
\* and names its value, so The({ F(x) : x \in {e} }) is F(e).
The(S) == CHOOSE x \in S : TRUE

IsEmptyDb(db) == DOMAIN db = {}
ListOf(db, t) == IF t \in DOMAIN db THEN db[t] ELSE <<>>

Reverse(l) == [i \in 1..Len(l) |-> l[Len(l) + 1 - i]]

\* _dedup_database, line 392: a descriptor with this key value was kept already
SeenKeyNever(kept, d, key) == FALSE
SeenKeyLast(kept, d, key) == Len(kept) > 0 /\ kept[Len(kept)][key] = d[key]
SeenKey(kept, d, key) == \E j \in 1..Len(kept) : kept[j][key] = d[key]

\* _dedup_database, lines 390-393: the loop over one tool's list
RECURSIVE DedupFrom(_, _, _, _)
DedupFrom(l, i, kept, key) ==
    IF i > Len(l) THEN kept
    ELSE DedupFrom(l, i + 1, IF SeenKey(kept, l[i], key) THEN kept ELSE Append(kept, l[i]), key)

DedupList(l, key) == DedupFrom(l, 1, <<>>, key)

\* _dedup_database, lines 387-388: an empty or missing argument means self.database
OrSelf(db, selfdb) == IF IsEmptyDb(db) THEN selfdb ELSE db

\* _dedup_database, lines 389-395
DedupDatabase(db, key) == [t \in DOMAIN db |-> DedupList(db[t], key)]

\* save_user_list, lines 82-90.  st = [db, file, writes] is self.database,
\* the user list file and the contents written so far.  Line 86 deduplicates
\* self.database, whatever database is written.
SaveUserList(st, dbarg) ==
    The({[db |-> sd,
          file |-> [exists |-> TRUE, content |-> IF IsEmptyDb(dbarg) THEN sd ELSE dbarg],
          writes |-> Append(st.writes, IF IsEmptyDb(dbarg) THEN sd ELSE dbarg)]
         : sd \in {DedupDatabase(st.db, "name")}})

\* load_resource_list, lines 92-108: the loaded lists are prepended per tool
LoadResourceListAppending(db, file) ==
    IF file.exists
       THEN [t \in DOMAIN db \cup DOMAIN file.content |->
                ListOf(db, t) \o ListOf(file.content, t)]
       ELSE db
LoadResourceList(db, file) ==
    IF file.exists
       THEN [t \in DOMAIN db \cup DOMAIN file.content |->
                ListOf(file.content, t) \o ListOf(db, t)]
       ELSE db

\* list_available, lines 120-133: every matching executable on the search
\* path that is not on the skip list has each declared resource inserted at
\* the front of its list, one by one
DiscoverAppending(db, res, exe) ==
    LET found == {t \in DOMAIN res : Matches(exe, t) /\ t \notin SkipExecutables /\ res[t] # <<>>}
    IN [t \in DOMAIN db \cup found |->
           ListOf(db, t) \o (IF t \in found THEN res[t] ELSE <<>>)]
Discover(db, res, exe) ==
    LET found == {t \in DOMAIN res : Matches(exe, t) /\ t \notin SkipExecutables /\ res[t] # <<>>}
    IN [t \in DOMAIN db \cup found |->
           (IF t \in found THEN Reverse(res[t]) ELSE <<>>) \o ListOf(db, t)]

\* list_available, lines 142-147
FilterFromUnfiltered(l, i, name, url) == l
RECURSIVE FilterFrom(_, _, _, _)
FilterFrom(l, i, name, url) ==
    IF i > Len(l) THEN <<>>
    ELSE IF (name # "" /\ l[i].name # name) \/ (url # "" /\ l[i].url # url)
            THEN FilterFrom(l, i + 1, name, url)
            ELSE <<l[i]>> \o FilterFrom(l, i + 1, name, url)

\* list_available, lines 116-117: the call without an executable
ReturnsEarlyNever(exe) == FALSE
ReturnsEarly(exe) == exe = ""

\* list_available, lines 110-151, on self.database (dbarg empty) or on the
\* database given.  Returns the new st, the given database as mutated (udb),
\* the result (a mapping tool -> descriptors, the order of the tools left
\* out) and whether the call returned at line 117.
ListAvailableOn(st, res, dbarg, exe, dynamic, name, url) ==
    LET alias == IsEmptyDb(dbarg)
        d0 == IF alias THEN st.db ELSE dbarg
        Matched(d1) == {k \in DOMAIN d1 : Matches(exe, k)}
        Ret(d1) == IF Matched(d1) = {}
                      THEN (exe :> <<>>)
                      ELSE [k \in Matched(d1) |-> FilterFrom(d1[k], 1, name, url)]
        Saved(d1) == SaveUserList(IF alias THEN [st EXCEPT !.db = d1] ELSE st, <<>>)
        Out(d1, st2) == [st |-> st2, udb |-> IF alias THEN st2.db ELSE d1,
                         ret |-> Ret(d1), early |-> FALSE]
    IN IF ReturnsEarly(exe)
          THEN [st |-> st, udb |-> dbarg, ret |-> d0, early |-> TRUE]
          ELSE The({The({Out(d1, st2) : st2 \in {Saved(d1)}})
                    : d1 \in {IF dynamic
                                 THEN DedupDatabase(OrSelf(Discover(d0, res, exe), st.db), "name")
                                 ELSE d0}})

\* add_to_user_database, lines 218-225
StubDesc(n) == [name |-> n, url |-> "???", description |-> "Found at", path |-> FALSE]

\* add_to_user_database, line 217: no descriptor of that name was listed
NotFoundAlways(found) == TRUE
NotFound(found) == found = <<>>

\* add_to_user_database, lines 201-231, for a tool name and an existing file
AddToUserDatabaseOn(st, res, tool, resname) ==
    LET u0 == st.file.content
        u1 == IF tool \in DOMAIN u0 THEN u0 ELSE (tool :> <<>>) @@ u0
        Found(la) == la.ret[tool]
        Resdict(la) == IF NotFound(Found(la)) THEN StubDesc(resname) ELSE Found(la)[1]
        U2(la) == IF NotFound(Found(la))
                     THEN [la.udb EXCEPT ![tool] = Append(@, Resdict(la))]
                     ELSE la.udb
        Out(la, st3) == [st |-> [st3 EXCEPT !.db = LoadResourceList(st3.db, st3.file)],
                         resdict |-> Resdict(la)]
    IN The({The({Out(la, st3) : st3 \in {SaveUserList(la.st, U2(la))}})
            : la \in {ListAvailableOn(st, res, u1, tool, TRUE, resname, "")}})

\* __init__, lines 56-62
ConstructOn(bundledFile, file) ==
    LET st0 == [db |-> LoadResourceList(<<>>, bundledFile), file |-> file, writes |-> <<>>]
    IN The({[st1 EXCEPT !.db = LoadResourceList(st1.db, st1.file)]
            : st1 \in {IF ~file.exists THEN SaveUserList(st0, <<>>) ELSE st0}})

(***************************************************************************)
(* list_installed.  disk maps a tool to [types, found]: the media types    *)
(* get_processor_resource_types gives for it and the sorted list that      *)
(* list_all_resources returns for it, one (base, path) pair per resource;  *)
(* an entry records the path's name, whether it is a directory and whether *)
(* its parent is the tool's module directory.                              *)
(***************************************************************************)
Entry(n, isdir, atModule) == [name |-> n, isdir |-> isdir, atModule |-> atModule]

TypesOf(dsk, t) == IF t \in DOMAIN dsk THEN dsk[t].types ELSE {"*/*"}
FoundOf(dsk, t) == IF t \in DOMAIN dsk THEN dsk[t].found ELSE <<>>

\* list_installed, lines 172-173: the loop variable is one element of
\* list_all_resources' result, a (base, path) tuple (os.py lines 192-194), and
\* Path(res_filename) of a tuple raises TypeError.  AsPathOfPair is what an
\* unpacking loop would get.
AsPathOfPair(e) == [ok |-> TRUE, name |-> e.name, isdir |-> e.isdir, atModule |-> e.atModule]
AsPath(e) == [ok |-> FALSE, name |-> "", isdir |-> FALSE, atModule |-> FALSE]

\* list_installed, lines 174-178
TypeSkips(types, isdir) ==
    /\ "*/*" \notin types
    /\ \/ (isdir /\ "text/directory" \notin types)
       \/ (~isdir /\ types = {"text/directory"})

FirstNamed(l, n) == CHOOSE i \in 1..Len(l) : l[i].name = n /\ \A j \in 1..(i - 1) : l[j].name # n
HasNamed(l, n) == \E i \in 1..Len(l) : l[i].name = n

\* list_installed, lines 172-196: the loop over the resources of one tool.
\* acc = [st, reslist, raised].  Line 195 sets 'path' on the descriptor object
\* itself, which for a descriptor matched by name is the object self.database
\* holds.
RECURSIVE EntriesFrom(_, _, _, _, _, _)
EntriesFrom(acc0, res, tool, found, types, i) ==
    LET Matched(acc, l, p) ==
            The({[st |-> [acc.st EXCEPT !.db[tool][FirstNamed(l, p.name)] = resdict],
                  reslist |-> Append(acc.reslist, resdict),
                  raised |-> FALSE]
                 : resdict \in {[l[FirstNamed(l, p.name)] EXCEPT !.path = TRUE]}})
        AtModule(acc, p) ==
            [acc EXCEPT !.reslist =
                 Append(@, [name |-> p.name, url |-> "path",
                            description |-> "Found at module", path |-> TRUE])]
        Added(acc, p) ==
            The({[st |-> r.st,
                  reslist |-> Append(acc.reslist, [r.resdict EXCEPT !.path = TRUE]),
                  raised |-> FALSE]
                 : r \in {AddToUserDatabaseOn(acc.st, res, tool, p.name)}})
        Body(acc, l, p) ==
            IF ~p.ok THEN [acc EXCEPT !.raised = TRUE]
            ELSE IF TypeSkips(types, p.isdir) THEN acc
            ELSE IF HasNamed(l, p.name) THEN Matched(acc, l, p)
            ELSE IF p.atModule THEN AtModule(acc, p)
            ELSE Added(acc, p)
        Next1(acc) ==
            IF acc.raised \/ i > Len(found) THEN acc
            ELSE The({EntriesFrom(a, res, tool, found, types, i + 1)
                      : a \in {Body(acc, ListOf(acc.st.db, tool), AsPath(found[i]))}})
    IN The({Next1(acc) : acc \in {acc0}})

\* list_installed, lines 168-197: the loop over the tools, in the order the
\* set iteration yields them.  acc = [st, ret, raised].
RECURSIVE ToolsFrom(_, _, _, _, _)
ToolsFrom(acc0, res, dsk, order, i) ==
    LET Entries(acc, t) ==
            EntriesFrom([st |-> acc.st, reslist |-> <<>>, raised |-> FALSE],
                        res, t, FoundOf(dsk, t), TypesOf(dsk, t), 1)
        Body(acc, t) ==
            The({[st |-> r.st,
                  ret |-> IF r.raised THEN acc.ret ELSE (t :> r.reslist) @@ acc.ret,
                  raised |-> r.raised]
                 : r \in {Entries(acc, t)}})
        Next1(acc) ==
            IF acc.raised \/ i > Len(order) THEN acc
            ELSE The({ToolsFrom(a, res, dsk, order, i + 1) : a \in {Body(acc, order[i])}})
    IN The({Next1(acc) : acc \in {acc0}})

\* list_installed, lines 158-167: the tools to look at
RelevantTools(db, dsk, exe) == IF exe # "" THEN {exe} ELSE DOMAIN db \cup DOMAIN dsk

Orders(S) == {o \in [1..Cardinality(S) -> S] : \A x \in S : \E i \in 1..Cardinality(S) : o[i] = x}

\* list_installed, lines 153-199
ListInstalledOn(st, res, dsk, order) ==
    The({IF r.raised THEN r ELSE [st |-> SaveUserList(r.st, <<>>), ret |-> r.ret, raised |-> FALSE]
         : r \in {ToolsFrom([st |-> st, ret |-> <<>>, raised |-> FALSE], res, dsk, order, 1)}})

(***************************************************************************)
(* The registry's environment and its actions                              *)
(***************************************************************************)
B(n) == Desc(n, "B", "bundled")
U(n) == Desc(n, "U", "user")
U2(n) == Desc(n, "U2", "user")
D(n) == Desc(n, "D", "declared")

\* the bundled list, the user list as the user left it, the resources the
\* tools on the search path declare, and the resources found on disk
BundledLists ==
    {<<>>,
     ("ocrd-a" :> <<B("m1")>>),
     ("ocrd-a" :> <<B("m1"), B("m2")>>),
     ("ocrd-a" :> <<B("m1")>>) @@ ("ocrd-b" :> <<B("m1")>>)}
UserLists ==
    {<<>>,
     ("ocrd-a" :> <<U("m1")>>),
     ("ocrd-a" :> <<U("m2"), U("m1")>>),
     ("ocrd-a" :> <<U("m1"), U2("m1")>>)}
DeclaredResources ==
    {<<>>,
     ("ocrd-a" :> <<D("m1")>>),
     ("ocrd-a" :> <<D("m1"), D("m2")>>),
     ("ocrd-a" :> <<>>) @@ ("ocrd-b" :> <<D("m2")>>) @@ ("ocrd-make" :> <<D("m1")>>)}
DiskStates ==
    {<<>>,
     ("ocrd-a" :> [types |-> {"*/*"}, found |-> <<>>]),
     ("ocrd-a" :> [types |-> {"*/*"}, found |-> <<Entry("m1", FALSE, FALSE)>>]),
     ("ocrd-a" :> [types |-> {"text/directory"},
                   found |-> <<Entry("m1", FALSE, FALSE), Entry("m2", TRUE, TRUE)>>])}

\* again: the operation repeats the tool and the name of the operation before it
NoOp ==
    [op |-> "none", exe |-> "", dynamic |-> FALSE, name |-> "", url |-> "",
     ret |-> <<>>, raised |-> FALSE, early |-> FALSE, again |-> FALSE]

InitRegistry ==
    /\ rpc = "new"
    /\ database = <<>>
    /\ bundled \in BundledLists
    /\ \/ userFile = [exists |-> FALSE, content |-> <<>>]
       \/ \E u \in UserLists : userFile = [exists |-> TRUE, content |-> u]
    /\ toolRes \in DeclaredResources
    /\ disk \in DiskStates
    /\ lastOp = NoOp
    /\ writes = <<>>
    /\ userAtCtor = <<>>
    /\ nops = 0
    /\ dumpJson = <<>>

\* OcrdResourceManager(): a process starts and constructs its manager
Construct ==
    /\ nops < MaxOps
    /\ \E st \in {ConstructOn([exists |-> TRUE, content |-> bundled], userFile)} :
          /\ database' = st.db
          /\ userFile' = st.file
          /\ writes' = st.writes
          /\ userAtCtor' = st.file.content
    /\ rpc' = "ready"
    /\ lastOp' = [NoOp EXCEPT !.op = "construct"]
    /\ nops' = nops + 1
    /\ UNCHANGED <<toolRes, bundled, disk, dumpJson>>

\* get_ocrd_tool_json, os.py lines 78-95, by what '<tool> --dump-json' does:
\*   "object"       prints a JSON object (with the resources of toolRes)
\*   "oserror"      cannot be run: OSError, caught at line 91
\*   "invalid"      prints no JSON: JSONDecodeError, caught at line 91
\*   "undecodable"  prints bytes that are no UTF-8: json.loads raises
\*                  UnicodeDecodeError, which line 91 does not catch
\*   "notobject"    prints JSON that is no object ([] or null): TypeError at
\*                  lines 93-94
DumpKinds == {"object", "oserror", "invalid", "undecodable", "notobject"}
DumpKind(dj, t) == IF t \in DOMAIN dj THEN dj[t] ELSE "object"
GetToolJsonRaises(kind) == kind \in {"undecodable", "notobject"}
GetToolJsonResources(kind, declared) == IF kind = "object" THEN declared ELSE <<>>

\* what line 130 gets for every tool on the search path
ResourcesGot(res, dj) == [t \in DOMAIN res |-> GetToolJsonResources(DumpKind(dj, t), res[t])]
\* the executables line 129 is called for, and those of them it raises for
Inspected(res, exe) == {t \in DOMAIN res : Matches(exe, t) /\ t \notin SkipExecutables}
Failing(res, dj, exe) == {t \in Inspected(res, exe) : GetToolJsonRaises(DumpKind(dj, t))}

ExeArgs == {"", "ocrd-a", "ocrd-*", "ocrd-x"}
FilterArgs == {<<"", "">>, <<"m1", "">>, <<"", "U">>}

\* list_available(executable, dynamic, name, url=url) on the registry.  When
\* get_ocrd_tool_json raises for an executable, the call ends there: the
\* executables that came before it on the search path (any of the others)
\* have had their resources inserted, nothing is deduplicated or saved.
ListAvailableCall(op, exes, dynamics, filters) ==
    /\ rpc = "ready"
    /\ nops < MaxOps
    /\ \E exe \in exes, dynamic \in dynamics, f \in filters :
       IF dynamic /\ ~ReturnsEarly(exe) /\ Failing(toolRes, dumpJson, exe) # {}
       THEN \E before \in SUBSET (Inspected(toolRes, exe) \ Failing(toolRes, dumpJson, exe)) :
             /\ database' = Discover(database,
                                     [t \in before |-> ResourcesGot(toolRes, dumpJson)[t]], exe)
             /\ UNCHANGED userFile
             /\ writes' = <<>>
             /\ lastOp' = [op |-> op, exe |-> exe, dynamic |-> dynamic,
                           name |-> f[1], url |-> f[2], ret |-> <<>>,
                           raised |-> TRUE, early |-> FALSE, again |-> FALSE]
       ELSE \E r \in {ListAvailableOn([db |-> database, file |-> userFile, writes |-> <<>>],
                                      ResourcesGot(toolRes, dumpJson), <<>>,
                                      exe, dynamic, f[1], f[2])} :
             /\ database' = r.st.db
             /\ userFile' = r.st.file
             /\ writes' = r.st.writes
             /\ lastOp' = [op |-> op, exe |-> exe, dynamic |-> dynamic,
                           name |-> f[1], url |-> f[2], ret |-> r.ret,
                           raised |-> FALSE, early |-> r.early, again |-> FALSE]
    /\ nops' = nops + 1
    /\ UNCHANGED <<rpc, toolRes, bundled, disk, userAtCtor, dumpJson>>

\* list_available(executable, dynamic, name, url=url) called on the manager
ListAvailable == ListAvailableCall("list_available", ExeArgs, BOOLEAN, FilterArgs)

\* list_installed(executable)
ListInstalled ==
    /\ rpc = "ready"
    /\ nops < MaxOps
    /\ \E exe \in {"", "ocrd-a"} :
       \E order \in Orders(RelevantTools(database, disk, exe)) :
       \E r \in {ListInstalledOn([db |-> database, file |-> userFile, writes |-> <<>>],
                                 toolRes, disk, order)} :
             /\ database' = r.st.db
             /\ userFile' = r.st.file
             /\ writes' = r.st.writes
             /\ lastOp' = [NoOp EXCEPT !.op = "list_installed", !.exe = exe,
                                       !.ret = r.ret, !.raised = r.raised]
    /\ nops' = nops + 1
    /\ UNCHANGED <<rpc, toolRes, bundled, disk, userAtCtor, dumpJson>>

\* add_to_user_database(executable, res_filename) for an existing file
AddToUserDatabase ==
    /\ rpc = "ready"
    /\ nops < MaxOps
    /\ \E tool \in Tools, n \in Names :
       \E r \in {AddToUserDatabaseOn([db |-> database, file |-> userFile, writes |-> <<>>],
                                     toolRes, tool, n)} :
             /\ database' = r.st.db
             /\ userFile' = r.st.file
             /\ writes' = r.st.writes
             /\ lastOp' = [NoOp EXCEPT !.op = "add_to_user_database", !.exe = tool,
                                       !.name = n, !.ret = (tool :> <<r.resdict>>),
                                       !.again = (/\ lastOp.op = "add_to_user_database"
                                                  /\ lastOp.exe = tool
                                                  /\ lastOp.name = n)]
    /\ nops' = nops + 1
    /\ UNCHANGED <<rpc, toolRes, bundled, disk, userAtCtor, dumpJson>>

DlIdle ==
    /\ pc = "off"
    /\ args = NoArgs
    /\ fs = [dest |-> NoNode, destdir |-> FALSE, tmp |-> NoTmp, orig |-> TRUE]
    /\ cwd = "orig"
    /\ pos = 0
    /\ exc = FALSE
    /\ result = "none"
    /\ fs0 = fs
    /\ transferred = FALSE
    /\ ncalls = 0
    /\ repeat = FALSE

NextRegistry ==
    \/ (Construct /\ UNCHANGED <<dlVars, ddVars, extVars>>)
    \/ (ListAvailable /\ UNCHANGED <<dlVars, ddVars, extVars>>)
    \/ (ListInstalled /\ UNCHANGED <<dlVars, ddVars, extVars>>)
    \/ (AddToUserDatabase /\ UNCHANGED <<dlVars, ddVars, extVars>>)

\* the initial states: the other parts of the program are at rest
StartRegistry == InitRegistry /\ DlIdle /\ DdIdle /\ ExtIdle

SpecRegistry == StartRegistry /\ [][NextRegistry]_vars

(***************************************************************************)
(* The remote-procedure layer (ocrd_network/resource_manager_server.py):   *)
(* the server constructs one manager (line 26) and each endpoint is one    *)
(* synchronous call on it, whose result is returned under the key 'result'.*)
(***************************************************************************)
\* list_available_models, lines 92-97: list_available(executable, dynamic, name)
ListAvailableModels ==
    ListAvailableCall("list_available_models", ExeArgs, BOOLEAN, {<<"", "">>, <<"m1", "">>})

\* list_installed_models, lines 99-104: list_available(executable)
ListInstalledModels ==
    ListAvailableCall("list_installed_models", {"", "ocrd-a"}, {TRUE}, {<<"", "">>})

NextServer ==
    \/ (Construct /\ UNCHANGED <<dlVars, ddVars, extVars>>)
    \/ (ListAvailableModels /\ UNCHANGED <<dlVars, ddVars, extVars>>)
    \/ (ListInstalledModels /\ UNCHANGED <<dlVars, ddVars, extVars>>)

SpecServer == StartRegistry /\ [][NextServer]_vars

\* C26: a request to an endpoint answers what the core operation gives for
\* the same arguments from the same registry, user list file and disk:
\* list_available_models what list_available(executable, dynamic, name)
\* gives, list_installed_models what list_installed(executable) gives
\* (its list, or its exception).
C26_EndpointsFaithful ==
    [][/\ (nops' # nops /\ lastOp'.op = "list_available_models") =>
            \E r \in {ListAvailableOn([db |-> database, file |-> userFile, writes |-> <<>>],
                                      ResourcesGot(toolRes, dumpJson), <<>>,
                                      lastOp'.exe, lastOp'.dynamic, lastOp'.name, "")} :
               /\ ~lastOp'.raised
               /\ lastOp'.ret = r.ret
       /\ (nops' # nops /\ lastOp'.op = "list_installed_models") =>
            \E order \in Orders(RelevantTools(database, disk, lastOp'.exe)) :
            \E r \in {ListInstalledOn([db |-> database, file |-> userFile, writes |-> <<>>],
                                      toolRes, disk, order)} :
               /\ lastOp'.raised = r.raised
               /\ ~r.raised => lastOp'.ret = r.ret]_vars

(***************************************************************************)
(* Dynamic discovery with executables whose introspection fails: the       *)
(* constructor and list_available, over every way the two tools on the     *)
(* search path answer --dump-json.                                         *)
(***************************************************************************)
InitDiscovery ==
    /\ rpc = "new"
    /\ database = <<>>
    /\ bundled \in {<<>>, ("ocrd-a" :> <<B("m1")>>)}
    /\ userFile \in {[exists |-> FALSE, content |-> <<>>],
                     [exists |-> TRUE, content |-> ("ocrd-a" :> <<U("m1")>>)]}
    /\ toolRes = ("ocrd-a" :> <<D("m1")>>) @@ ("ocrd-b" :> <<D("m2")>>)
    /\ dumpJson \in [{"ocrd-a", "ocrd-b"} -> DumpKinds]
    /\ disk = <<>>
    /\ lastOp = NoOp
    /\ writes = <<>>
    /\ userAtCtor = <<>>
    /\ nops = 0

NextDiscovery ==
    \/ (Construct /\ UNCHANGED <<dlVars, ddVars, extVars>>)
    \/ (ListAvailable /\ UNCHANGED <<dlVars, ddVars, extVars>>)

StartDiscovery == InitDiscovery /\ DlIdle /\ DdIdle /\ ExtIdle

SpecDiscovery == StartDiscovery /\ [][NextDiscovery]_vars

(***************************************************************************)
(* _dedup_database as a function of its arguments                          *)
(***************************************************************************)
\* _dedup_database(database, dedup_key), lines 383-395
DedupDatabaseCall(db, selfdb, key) == DedupDatabase(OrSelf(db, selfdb), key)

RECURSIVE SeqsUpTo(_, _)
SeqsUpTo(S, n) ==
    IF n = 0 THEN {<<>>}
    ELSE SeqsUpTo(S, n - 1) \cup {Append(q, x) : q \in SeqsUpTo(S, n - 1), x \in S}

DdDescs == {Desc(n, u, "d") : n \in Names, u \in {"X", "Y"}}
DdLists == SeqsUpTo(DdDescs, MaxList)
DdShort == {l \in DdLists : Len(l) <= 1}
DdDatabases ==
    {<<>>} \cup {("ocrd-a" :> l) : l \in DdLists}
           \cup {("ocrd-a" :> l) @@ ("ocrd-b" :> m) : l \in DdLists, m \in DdShort}
DdSelf == {<<>>, ("ocrd-b" :> <<Desc("m1", "X", "d"), Desc("m1", "Y", "d")>>)}

InitDedup ==
    /\ ddIn \in [db : DdDatabases, selfdb : DdSelf, key : {"name", "url"}]
    /\ ddOut = <<>>
    /\ ddTwice = <<>>
    /\ ddDone = FALSE

\* the function is applied, and applied again to its result
DedupApply ==
    /\ ~ddDone
    /\ \E out \in {DedupDatabaseCall(ddIn.db, ddIn.selfdb, ddIn.key)} :
          /\ ddOut' = out
          /\ ddTwice' = DedupDatabaseCall(out, out, ddIn.key)
    /\ ddDone' = TRUE
    /\ UNCHANGED ddIn

NextDedup == DedupApply /\ UNCHANGED <<dlVars, regVars, extVars>>

\* the initial states: the other parts of the program are at rest
StartDedup == InitDedup /\ DlIdle /\ RegIdle /\ ExtIdle

SpecDedup == StartDedup /\ [][NextDedup]_vars

(***************************************************************************)
(* Claims about the registry store, checked under SpecRegistry (C8 under   *)
(* SpecDedup)                                                              *)
(***************************************************************************)
AllDescs(db) == {db[t][i] : <<t, i>> \in {<<t, i>> \in (DOMAIN db) \X (1..8) : i <= Len(db[t])}}

NoDuplicateNames(db) ==
    \A t \in DOMAIN db : \A i, j \in 1..Len(db[t]) : db[t][i].name = db[t][j].name => i = j

\* C7: every content written to the user list file, by whichever operation
\* and with or without an explicit database, has no two descriptors of the
\* same name in any tool's list.
C7_WritesAreDeduplicated ==
    \A i \in 1..Len(writes) : NoDuplicateNames(writes[i])

\* C7 witness: add_to_user_database, right after construction from a user list
\* that holds two descriptors of one name, has written first the registry and
\* then its explicit user database, both without duplicates.
C7_Witness ==
    /\ lastOp.op = "add_to_user_database"
    /\ nops = 2
    /\ ~NoDuplicateNames(userAtCtor)
    /\ Len(writes) = 2
    /\ writes[1] # writes[2]
    /\ NoDuplicateNames(writes[2])

\* the indices of the first descriptor of every key value, and the k-th of them
FirstIdx(l, key) == {i \in 1..Len(l) : \A j \in 1..(i - 1) : l[j][key] # l[i][key]}
KthOf(K, k) == CHOOSE i \in K : Cardinality({j \in K : j <= i}) = k

\* C8: the result of _dedup_database has the tools of the database it worked
\* on (the one given or, for an empty or missing argument, self.database);
\* every tool's list consists of exactly the first descriptor of each key
\* value, in the order they had; and a second application changes nothing.
C8_DedupKeepsFirst ==
    ddDone =>
       LET eff == OrSelf(ddIn.db, ddIn.selfdb)
       IN /\ DOMAIN ddOut = DOMAIN eff
          /\ \A t \in DOMAIN eff :
                LET K == FirstIdx(eff[t], ddIn.key)
                IN /\ Len(ddOut[t]) = Cardinality(K)
                   /\ \A k \in 1..Len(ddOut[t]) : ddOut[t][k] = eff[t][KthOf(K, k)]
          /\ ddTwice = ddOut

\* C8 witness: the list [{name: m1, url: X}, {name: m1, url: Y}] has become
\* [{name: m1, url: X}].
C8_Witness ==
    /\ ddDone
    /\ ddIn.key = "name"
    /\ "ocrd-a" \in DOMAIN ddIn.db
    /\ ddIn.db["ocrd-a"] = <<Desc("m1", "X", "d"), Desc("m1", "Y", "d")>>
    /\ ddOut["ocrd-a"] = <<Desc("m1", "X", "d")>>

DeclaredHas(t, n) ==
    t \in DOMAIN toolRes /\ t \notin SkipExecutables /\ HasNamed(toolRes[t], n)
UserVersion(t, n) == userAtCtor[t][FirstNamed(userAtCtor[t], n)]
ShadowingVersions(t, n) ==
    {UserVersion(t, n)} \cup
    (IF DeclaredHas(t, n) THEN {toolRes[t][i] : i \in 1..Len(toolRes[t])} ELSE {})

\* C9 as claimed: for a tool and a name that the bundled list and the user
\* list loaded by the constructor both declare, list_available returns the
\* user list's version as the first descriptor of that name, and the user
\* list's version is the only descriptor of that name left in the registry.
C9_UserVersionFirst ==
    (lastOp.op = "list_available" /\ ~lastOp.early /\ lastOp.url = "") =>
       \A t \in DOMAIN lastOp.ret \cap DOMAIN userAtCtor \cap DOMAIN bundled :
       \A n \in Names :
          (HasNamed(userAtCtor[t], n) /\ HasNamed(bundled[t], n) /\ lastOp.name \in {"", n}) =>
             /\ HasNamed(lastOp.ret[t], n)
             /\ lastOp.ret[t][FirstNamed(lastOp.ret[t], n)] = UserVersion(t, n)
             /\ t \in DOMAIN database
             /\ \A i \in 1..Len(database[t]) :
                   database[t][i].name = n => database[t][i] = UserVersion(t, n)

\* C9 as amended: for a tool and a name that the bundled list and the user list loaded
\* by the constructor both declare, a list_available that matches the tool
\* (and does not filter the name away) returns a descriptor of that name, and
\* the first one it returns is the user list's version; the registry, which
\* the call has deduplicated, keeps exactly that one descriptor of the name.
\* Only a descriptor of that name declared by the tool itself (dynamic
\* discovery) comes before the user's.
C9_UserShadowsBundled ==
    (lastOp.op = "list_available" /\ ~lastOp.early /\ lastOp.url = "") =>
       \A t \in DOMAIN lastOp.ret \cap DOMAIN userAtCtor \cap DOMAIN bundled :
       \A n \in Names :
          (HasNamed(userAtCtor[t], n) /\ HasNamed(bundled[t], n) /\ lastOp.name \in {"", n}) =>
             /\ HasNamed(lastOp.ret[t], n)
             /\ lastOp.ret[t][FirstNamed(lastOp.ret[t], n)] \in ShadowingVersions(t, n)
             /\ t \in DOMAIN database
             /\ \A i \in 1..Len(database[t]) :
                   database[t][i].name = n =>
                      (i = FirstNamed(database[t], n) /\ database[t][i] \in ShadowingVersions(t, n))

\* C9 witness: the bundled and the user list declare m1 for ocrd-a with
\* different urls, the tool itself does not declare it, and list_available
\* returned the user's version first.
C9_Witness ==
    /\ lastOp.op = "list_available"
    /\ ~lastOp.early
    /\ lastOp.url = ""
    /\ "ocrd-a" \in DOMAIN lastOp.ret \cap DOMAIN userAtCtor \cap DOMAIN bundled
    /\ HasNamed(bundled["ocrd-a"], "m1")
    /\ HasNamed(userAtCtor["ocrd-a"], "m1")
    /\ ~DeclaredHas("ocrd-a", "m1")
    /\ UserVersion("ocrd-a", "m1").url = "U"
    /\ lastOp.ret["ocrd-a"][1] = UserVersion("ocrd-a", "m1")
    /\ database["ocrd-a"][1].url = "U"

NamedIn(l, n) == {i \in 1..Len(l) : l[i].name = n}
DeclaredFor(t) == IF t \in DOMAIN toolRes /\ t \notin SkipExecutables THEN toolRes[t] ELSE <<>>

\* C11 as claimed: a call of add_to_user_database for a tool and a name of which
\* the registry already holds a descriptor returns a descriptor the registry
\* (or the tool's own declaration) held, and a repeated call returns an equal
\* descriptor and leaves the user list file unchanged.
C11_ExistingIsReturned ==
    [][(lastOp'.op = "add_to_user_database" /\ nops' = nops + 1) =>
          LET t == lastOp'.exe
              n == lastOp'.name
              reg == ListOf(database, t)
              existing == {reg[i] : i \in NamedIn(reg, n)} \cup
                          {DeclaredFor(t)[i] : i \in NamedIn(DeclaredFor(t), n)}
          IN /\ existing # {} => lastOp'.ret[t][1] \in existing
             /\ lastOp'.again =>
                   /\ lastOp'.ret = lastOp.ret
                   /\ userFile' = userFile]_vars

\* C11 as amended: add_to_user_database is idempotent.  A call for a tool and a name of
\* which the user list (the database the function consults) or the tool's own
\* declaration already holds a descriptor returns one of these descriptors,
\* unchanged, and writes no stub; and a call that repeats the tool and name of
\* the call before it returns an equal descriptor and leaves the user list
\* file as the first call left it, with exactly one descriptor of that name.
C11_AddIsIdempotent ==
    [][(lastOp'.op = "add_to_user_database" /\ nops' = nops + 1) =>
          LET t == lastOp'.exe
              n == lastOp'.name
              before == ListOf(userFile.content, t)
              after == ListOf(userFile'.content, t)
              known == {before[i] : i \in NamedIn(before, n)} \cup
                       {DeclaredFor(t)[i] : i \in NamedIn(DeclaredFor(t), n)}
          IN /\ Cardinality(NamedIn(after, n)) = 1
             /\ lastOp'.ret[t][1] = after[FirstNamed(after, n)]
             /\ known # {} => lastOp'.ret[t][1] \in known
             /\ known = {} => lastOp'.ret[t][1] = StubDesc(n)
             /\ lastOp'.again =>
                   /\ lastOp'.ret = lastOp.ret
                   /\ userFile' = userFile]_vars

\* C11 witness: two calls in a row for ocrd-a and m2, a name neither list nor
\* the tool knew; the second returned the stub the first had written.
C11_Witness ==
    /\ lastOp.op = "add_to_user_database"
    /\ lastOp.again
    /\ lastOp.exe = "ocrd-a"
    /\ lastOp.name = "m2"
    /\ lastOp.ret["ocrd-a"][1] = StubDesc("m2")
    /\ Cardinality(NamedIn(userFile.content["ocrd-a"], "m2")) = 1
    /\ ~HasNamed(ListOf(bundled, "ocrd-a"), "m2")
    /\ ~HasNamed(DeclaredFor("ocrd-a"), "m2")

(***************************************************************************)
(* add_to_user_database called by two threads of one process.  The method  *)
(* takes no lock, so the threads interleave between its statements: the    *)
(* read of the user list (lines 212-215), the listing (216), the append    *)
(* (217-228), the write (229) and the reload (230).  Both threads work on   *)
(* the one manager, that is on self.database and the user list file.       *)
(***************************************************************************)
Threads == {1, 2}
AddTool == "ocrd-a"
AddName(th) == IF th = 1 THEN "m1" ELSE "m2"

NoDesc == Desc("", "", "")
ThreadStart == [pc |-> "start", udb |-> <<>>, found |-> <<>>, resdict |-> NoDesc]

\* the manager has been constructed; no thread has started
InitAdds ==
    /\ bundled \in BundledLists
    /\ toolRes \in {<<>>, ("ocrd-a" :> <<D("m1")>>)}
    /\ \E f \in {[exists |-> FALSE, content |-> <<>>]} \cup
                {[exists |-> TRUE, content |-> u] : u \in UserLists} :
       \E st \in {ConstructOn([exists |-> TRUE, content |-> bundled], f)} :
          /\ database = st.db
          /\ userFile = st.file
          /\ userAtCtor = st.file.content
    /\ writes = <<>>
    /\ rpc = "ready"
    /\ disk = <<>>
    /\ lastOp = NoOp
    /\ nops = 0
    /\ dumpJson = <<>>
    /\ thr = [th \in Threads |-> ThreadStart]

\* lines 212-215
AddRead(th) ==
    /\ thr[th].pc = "start"
    /\ thr' = [thr EXCEPT ![th].pc = "list",
                          ![th].udb = IF AddTool \in DOMAIN userFile.content
                                         THEN userFile.content
                                         ELSE (AddTool :> <<>>) @@ userFile.content]
    /\ UNCHANGED <<database, userFile, writes>>

\* line 216: list_available(executable, name=res_name, database=user_database)
AddList(th) ==
    /\ thr[th].pc = "list"
    /\ \E r \in {ListAvailableOn([db |-> database, file |-> userFile, writes |-> writes],
                                 toolRes, thr[th].udb, AddTool, TRUE, AddName(th), "")} :
          /\ database' = r.st.db
          /\ userFile' = r.st.file
          /\ writes' = r.st.writes
          /\ thr' = [thr EXCEPT ![th].pc = "append", ![th].udb = r.udb,
                                ![th].found = r.ret[AddTool]]

\* lines 217-228
AddAppend(th) ==
    /\ thr[th].pc = "append"
    /\ thr' = [thr EXCEPT
                 ![th].pc = "write",
                 ![th].resdict = IF NotFound(thr[th].found)
                                    THEN StubDesc(AddName(th)) ELSE thr[th].found[1],
                 ![th].udb = IF NotFound(thr[th].found)
                                THEN [@ EXCEPT ![AddTool] = Append(@, StubDesc(AddName(th)))]
                                ELSE @]
    /\ UNCHANGED <<database, userFile, writes>>

\* line 229: save_user_list(user_database)
AddWrite(th) ==
    /\ thr[th].pc = "write"
    /\ \E st \in {SaveUserList([db |-> database, file |-> userFile, writes |-> writes],
                               thr[th].udb)} :
          /\ database' = st.db
          /\ userFile' = st.file
          /\ writes' = st.writes
    /\ thr' = [thr EXCEPT ![th].pc = "reload"]

\* lines 230-231: load_resource_list(self.user_list) and the return
AddReload(th) ==
    /\ thr[th].pc = "reload"
    /\ database' = LoadResourceList(database, userFile)
    /\ thr' = [thr EXCEPT ![th].pc = "done"]
    /\ UNCHANGED <<userFile, writes>>

AddsFrame ==
    UNCHANGED <<rpc, toolRes, bundled, disk, lastOp, userAtCtor, nops, dumpJson,
                dlVars, ddVars, arc, ld, rc>>

NextAdds ==
    \/ \E th \in Threads : AddRead(th) /\ AddsFrame
    \/ \E th \in Threads : AddList(th) /\ AddsFrame
    \/ \E th \in Threads : AddAppend(th) /\ AddsFrame
    \/ \E th \in Threads : AddWrite(th) /\ AddsFrame
    \/ \E th \in Threads : AddReload(th) /\ AddsFrame

StartAdds == InitAdds /\ DlIdle /\ DdIdle /\ ArchivesIdle /\ LoadIdle /\ CandidatesIdle

SpecAdds == StartAdds /\ [][NextAdds]_vars

OnDisk(d) ==
    \E i \in 1..Len(ListOf(userFile.content, AddTool)) : userFile.content[AddTool][i] = d

\* C12: once both interleaved add_to_user_database calls have returned, the
\* user list file holds the descriptor each of them returned (both stubs),
\* and every stub of the in-memory registry is in the file.
C12_BothStubsOnDisk ==
    (\A th \in Threads : thr[th].pc = "done") =>
       /\ \A th \in Threads : OnDisk(thr[th].resdict)
       /\ \A i \in 1..Len(ListOf(database, AddTool)) :
             database[AddTool][i].url = "???" => OnDisk(database[AddTool][i])

(***************************************************************************)
(* _download_archive run by two calls at once, with distinct absolute      *)
(* destinations and http urls.  The calls run either in two processes,     *)
(* each with its own working directory, or in two threads of one process,  *)
(* which share it (arc.shared): chdir changes the directory of the whole   *)
(* process.  A directory is a root and a number of 'out' levels below it;   *)
(* the roots are the directory the program was started in, the system      *)
(* temporary directory and the temporary directory of each call.           *)
(***************************************************************************)
Dir(r, k) == [root |-> r, depth |-> k]
OrigDir == Dir("orig", 0)
SysTmp == Dir("sys", 0)
\* os.py line 61: TemporaryDirectory() makes a directory of a fresh name
TmpRoot(th) == IF th = 1 THEN "tmp1" ELSE "tmp2"
Dirs == {Dir(r, k) : r \in {"orig", "sys", "tmp1", "tmp2"}, k \in 0..Cardinality(Threads)}
NoDir == Dir("none", 0)

Sub(d) == Dir(d.root, d.depth + 1)
Parent(d) == IF d.depth > 0 THEN Dir(d.root, d.depth - 1)
             ELSE IF d.root \in {"tmp1", "tmp2"} THEN SysTmp ELSE NoDir
InTree(d, r) == d.root = r

\* chdir: of the process (threads) or of the calling process only
Chdir(a, th, d) ==
    IF a.shared THEN [t \in Threads |-> d] ELSE [a.cwd EXCEPT ![th] = d]

\* os.py lines 54-58
Getcwd(a, th) == IF a.cwd[th] \in a.ex THEN a.cwd[th] ELSE SysTmp

ArcStart == [pc |-> "start", old |-> NoDir, old2 |-> NoDir, raised |-> FALSE]

InitArchives ==
    \E sh \in BOOLEAN :
       arc = [shared |-> sh,
              cwd |-> [t \in Threads |-> OrigDir],
              ex |-> {OrigDir, SysTmp},
              arch |-> [d \in Dirs |-> 0],
              ext |-> [d \in Dirs |-> 0],
              th |-> [t \in Threads |-> ArcStart],
              dest |-> [t \in Threads |-> 0],
              foreign |-> FALSE]

Foreign(th, d) == ~InTree(d, TmpRoot(th))
Raise(a, th, to) == [a EXCEPT !.th[th].pc = to, !.th[th].raised = TRUE]

\* os.py lines 54-58: oldcwd = getcwd()
ArcGetcwd(th) ==
    /\ arc.th[th].pc = "start"
    /\ arc' = [arc EXCEPT !.th[th].pc = "enter", !.th[th].old = Getcwd(arc, th)]

\* os.py lines 61-62: the temporary directory is made and entered
ArcEnter(th) ==
    /\ arc.th[th].pc = "enter"
    /\ \E d \in {Dir(TmpRoot(th), 0)} :
          arc' = [arc EXCEPT !.th[th].pc = "transfer",
                             !.ex = @ \cup {d},
                             !.cwd = Chdir(arc, th, d)]

\* lines 325-326: the archive is downloaded to 'download.tar.xx', a name
\* relative to the working directory
ArcTransfer(th) ==
    /\ arc.th[th].pc = "transfer"
    /\ \E d \in {arc.cwd[th]} :
          arc' = IF d \notin arc.ex THEN Raise(arc, th, "cleanup")
                 ELSE [arc EXCEPT !.th[th].pc = "mkout",
                                  !.arch[d] = th,
                                  !.foreign = @ \/ Foreign(th, d)]

\* line 329: Path('out').mkdir()
ArcMkdirOut(th) ==
    /\ arc.th[th].pc = "mkout"
    /\ \E d \in {arc.cwd[th]} :
          arc' = IF d \notin arc.ex \/ Sub(d) \in arc.ex \/ Sub(d) \notin Dirs
                    THEN Raise(arc, th, "cleanup")
                    ELSE [arc EXCEPT !.th[th].pc = "pushd2",
                                     !.ex = @ \cup {Sub(d)},
                                     !.foreign = @ \/ Foreign(th, d)]

\* line 330, os.py lines 54-58 and 65-66: pushd_popd('out')
ArcChdirOut(th) ==
    /\ arc.th[th].pc = "pushd2"
    /\ \E d \in {arc.cwd[th]} :
          arc' = IF Sub(d) \notin arc.ex
                    THEN [Raise(arc, th, "popd2") EXCEPT !.th[th].old2 = Getcwd(arc, th)]
                    ELSE [arc EXCEPT !.th[th].pc = "extract",
                                     !.th[th].old2 = Getcwd(arc, th),
                                     !.cwd = Chdir(arc, th, Sub(d))]

\* lines 331-340: '../download.tar.xx' is sniffed and extracted into the
\* working directory
ArcUnpack(th) ==
    /\ arc.th[th].pc = "extract"
    /\ \E d \in {arc.cwd[th]} :
          arc' = IF d \notin arc.ex \/ Parent(d) \notin arc.ex \/ arc.arch[Parent(d)] = 0
                    THEN Raise(arc, th, "popd2")
                    ELSE [arc EXCEPT !.th[th].pc = "copy",
                                     !.ext[d] = arc.arch[Parent(d)],
                                     !.foreign = @ \/ Foreign(th, d)
                                                   \/ arc.arch[Parent(d)] # th]

\* lines 341-345: path_in_archive, relative to the working directory, is
\* copied to fpath
ArcPlace(th) ==
    /\ arc.th[th].pc = "copy"
    /\ \E d \in {arc.cwd[th]} :
          arc' = IF d \notin arc.ex \/ arc.ext[d] = 0
                    THEN Raise(arc, th, "popd2")
                    ELSE [arc EXCEPT !.th[th].pc = "popd2",
                                     !.dest[th] = arc.ext[d],
                                     !.foreign = @ \/ Foreign(th, d) \/ arc.ext[d] # th]

\* os.py lines 68-69 of pushd_popd('out'): chdir(oldcwd)
ArcLeaveOut(th) ==
    /\ arc.th[th].pc = "popd2"
    /\ \E d \in {arc.th[th].old2} :
          arc' = IF d \notin arc.ex THEN Raise(arc, th, "cleanup")
                 ELSE [arc EXCEPT !.th[th].pc = "cleanup", !.cwd = Chdir(arc, th, d)]

\* os.py line 61: leaving the with removes the temporary directory's tree
ArcRemoveTmp(th) ==
    /\ arc.th[th].pc = "cleanup"
    /\ arc' = [arc EXCEPT
                 !.th[th].pc = "popd1",
                 !.ex = {d \in @ : ~InTree(d, TmpRoot(th))},
                 !.arch = [d \in Dirs |-> IF InTree(d, TmpRoot(th)) THEN 0 ELSE @[d]],
                 !.ext = [d \in Dirs |-> IF InTree(d, TmpRoot(th)) THEN 0 ELSE @[d]]]

\* os.py lines 68-69 of pushd_popd(tempdir=True): chdir(oldcwd)
ArcLeaveTmp(th) ==
    /\ arc.th[th].pc = "popd1"
    /\ \E d \in {arc.th[th].old} :
          arc' = IF d \notin arc.ex THEN Raise(arc, th, "done")
                 ELSE [arc EXCEPT !.th[th].pc = "done", !.cwd = Chdir(arc, th, d)]

ArchivesFrame == UNCHANGED <<dlVars, regVars, ddVars, thr, ld, rc>>

NextArchives ==
    \/ \E th \in Threads : ArcGetcwd(th) /\ ArchivesFrame
    \/ \E th \in Threads : ArcEnter(th) /\ ArchivesFrame
    \/ \E th \in Threads : ArcTransfer(th) /\ ArchivesFrame
    \/ \E th \in Threads : ArcMkdirOut(th) /\ ArchivesFrame
    \/ \E th \in Threads : ArcChdirOut(th) /\ ArchivesFrame
    \/ \E th \in Threads : ArcUnpack(th) /\ ArchivesFrame
    \/ \E th \in Threads : ArcPlace(th) /\ ArchivesFrame
    \/ \E th \in Threads : ArcLeaveOut(th) /\ ArchivesFrame
    \/ \E th \in Threads : ArcRemoveTmp(th) /\ ArchivesFrame
    \/ \E th \in Threads : ArcLeaveTmp(th) /\ ArchivesFrame

StartArchives == InitArchives /\ DlIdle /\ RegIdle /\ DdIdle /\ AddsIdle /\ LoadIdle /\ CandidatesIdle

SpecArchives == StartArchives /\ [][NextArchives]_vars

ArchivesDone == \A th \in Threads : arc.th[th].pc = "done"

\* C13: two archive downloads interleaved in any order, in one process or in
\* two, never read or write scratch files outside their own
\* temporary directory, and each ends with the entry of its own archive at
\* its destination.
C13_NoCollision ==
    /\ ~arc.foreign
    /\ ArchivesDone => \A th \in Threads : arc.dest[th] = th /\ ~arc.th[th].raised

\* The same for two downloads that run in separate processes, each with its
\* own working directory (this part holds).
NoCollisionAcrossProcesses ==
    ~arc.shared =>
       /\ ~arc.foreign
       /\ ArchivesDone => \A th \in Threads : arc.dest[th] = th /\ ~arc.th[th].raised

\* Two processes have both archives in place and extracted at once, under the
\* same relative names.
BothExtractedAcrossProcesses ==
    /\ ~arc.shared
    /\ arc.th[1].pc = "copy"
    /\ arc.th[2].pc = "copy"
    /\ arc.arch[Dir("tmp1", 0)] = 1
    /\ arc.arch[Dir("tmp2", 0)] = 2
    /\ arc.ext[Dir("tmp1", 1)] = 1
    /\ arc.ext[Dir("tmp2", 1)] = 2

(***************************************************************************)
(* load_resource_list as a function of the database and of what is at the  *)
(* path.  A path holds nothing, a directory, or a file; a file either is   *)
(* no YAML or holds a mapping (an empty file loads as None, hence {}).  A  *)
(* key a descriptor of the file lacks has the value Missing.               *)
(***************************************************************************)
Missing == "<missing>"

\* OcrdResourceListValidator.validate (ocrd_validators, not among the
\* sources): every descriptor has the keys the schema requires
IsValidList(c) ==
    \A t \in DOMAIN c : \A i \in 1..Len(c[t]) :
       c[t][i].name # Missing /\ c[t][i].url # Missing /\ c[t][i].description # Missing

\* lines 100-102
RaisesInvalidNever(valid) == FALSE
RaisesInvalid(valid) == ~valid

\* load_resource_list(list_filename, database), lines 92-108.  Returns what is
\* raised, self.database and the database argument afterwards, and the
\* return value.
LoadResourceListCall(selfdb, dbarg, f) ==
    LET alias == IsEmptyDb(dbarg)
        d0 == IF alias THEN selfdb ELSE dbarg
        Same(r) == [raised |-> r, selfdb |-> selfdb, dbarg |-> dbarg,
                    ret |-> IF r = "none" THEN d0 ELSE <<>>]
        Merged(d1) == [raised |-> "none",
                       selfdb |-> IF alias THEN d1 ELSE selfdb,
                       dbarg |-> IF alias THEN dbarg ELSE d1,
                       ret |-> d1]
    IN IF f.kind # "file" THEN Same("none")
       ELSE IF ~f.yaml THEN Same("YAMLError")
       ELSE IF RaisesInvalid(IsValidList(f.content)) THEN Same("ValueError")
       ELSE The({Merged(d1)
                 : d1 \in {LoadResourceList(d0, [exists |-> TRUE, content |-> f.content])}})

LoadFiles ==
    {[kind |-> "none", yaml |-> FALSE, content |-> <<>>],
     [kind |-> "dir", yaml |-> FALSE, content |-> <<>>],
     [kind |-> "file", yaml |-> FALSE, content |-> <<>>]} \cup
    {[kind |-> "file", yaml |-> TRUE, content |-> c] :
        c \in {<<>>,
               ("ocrd-a" :> <<U("m1")>>),
               ("ocrd-a" :> <<U("m1")>>) @@ ("ocrd-b" :> <<U("m2"), U2("m2")>>),
               ("ocrd-a" :> <<Desc("m1", Missing, "user")>>),
               ("ocrd-a" :> <<U("m1")>>) @@ ("ocrd-b" :> <<Desc(Missing, "U", "user")>>)}}

LoadArgs == {<<>>, ("ocrd-a" :> <<U("m2")>>), ("ocrd-b" :> <<>>)}

InitLoad ==
    ld \in [selfdb : BundledLists, dbarg : LoadArgs, file : LoadFiles,
            done : {FALSE}, out : {<<>>}]

LoadApply ==
    /\ ~ld.done
    /\ ld' = [ld EXCEPT !.done = TRUE,
                        !.out = LoadResourceListCall(ld.selfdb, ld.dbarg, ld.file)]

NextLoad == LoadApply /\ UNCHANGED <<dlVars, regVars, ddVars, thr, arc, rc>>

StartLoad == InitLoad /\ DlIdle /\ RegIdle /\ DdIdle /\ AddsIdle /\ ArchivesIdle /\ CandidatesIdle

SpecLoad == StartLoad /\ [][NextLoad]_vars

EmptyFile == [kind |-> "file", yaml |-> TRUE, content |-> <<>>]

\* C14: load_resource_list of an existing file that violates the schema raises
\* the validation error and leaves self.database and the database given
\* unchanged; of a path that is no existing file it raises nothing, changes
\* neither, and returns what loading an empty file returns.
C14_InvalidRejectedMissingIgnored ==
    ld.done =>
       /\ (ld.file.kind = "file" /\ ld.file.yaml /\ ~IsValidList(ld.file.content)) =>
             /\ ld.out.raised = "ValueError"
             /\ ld.out.selfdb = ld.selfdb
             /\ ld.out.dbarg = ld.dbarg
       /\ ld.file.kind # "file" =>
             /\ ld.out.raised = "none"
             /\ ld.out.selfdb = ld.selfdb
             /\ ld.out.dbarg = ld.dbarg
             /\ ld.out = LoadResourceListCall(ld.selfdb, ld.dbarg, EmptyFile)

\* C14 witness: a file whose second tool holds a descriptor without a name was
\* loaded into a registry that is not empty, and rejected.
C14_Witness ==
    /\ ld.done
    /\ ld.file.kind = "file"
    /\ ld.file.yaml
    /\ DOMAIN ld.file.content = {"ocrd-a", "ocrd-b"}
    /\ ~IsValidList(ld.file.content)
    /\ ld.selfdb # <<>>
    /\ ld.out.raised = "ValueError"

Introspected(exe) ==
    {t \in DOMAIN toolRes : Matches(exe, t) /\ t \notin SkipExecutables}
DeclaredSet(t) == {toolRes[t][i] : i \in 1..Len(toolRes[t])}
DeclaredFirst(l, t) ==
    /\ \A i, j \in 1..Len(l) : (l[i] \in DeclaredSet(t) /\ l[j] \notin DeclaredSet(t)) => i < j
    /\ \A d \in DeclaredSet(t) :
          HasNamed(l, d.name) => l[FirstNamed(l, d.name)] \in DeclaredSet(t)

\* C15: after list_available(executable, dynamic=True), in the registry's list
\* and in the returned list of every introspected tool, every descriptor the
\* tool declares precedes every descriptor it does not declare; every declared
\* name is in the registry's list, once, and with a declared descriptor.
C15_DeclaredAheadOfStatic ==
    (lastOp.op = "list_available" /\ lastOp.dynamic /\ ~lastOp.early) =>
       \A t \in Introspected(lastOp.exe) :
          /\ DeclaredFirst(ListOf(database, t), t)
          /\ DeclaredFirst(ListOf(lastOp.ret, t), t)
          /\ \A d \in DeclaredSet(t) :
                /\ Cardinality(NamedIn(ListOf(database, t), d.name)) = 1
                /\ database[t][FirstNamed(database[t], d.name)] \in DeclaredSet(t)

\* C15 witness: ocrd-a declares m1, the user list holds m2 and m1 for it, and
\* after the listing the registry has the declared m1 first, the user's m2
\* behind it and no other m1.
C15_Witness ==
    /\ lastOp.op = "list_available"
    /\ lastOp.dynamic
    /\ lastOp.exe = "ocrd-a"
    /\ "ocrd-a" \in DOMAIN toolRes
    /\ toolRes["ocrd-a"] = <<D("m1")>>
    /\ "ocrd-a" \in DOMAIN userAtCtor
    /\ userAtCtor["ocrd-a"] = <<U("m2"), U("m1")>>
    /\ database["ocrd-a"] = <<D("m1"), U("m2")>>

\* C16: a list_available call with an executable raises nothing and returns,
\* for exactly the registry tools that match the executable glob, the tool's
\* descriptors that pass the name and url filters, in registry order (the
\* registry being the one listed: after the dynamic refresh when dynamic is
\* set, as it was before the call otherwise); when no tool matches it returns
\* the one pair (executable, []).
C16_ListAvailableResult ==
    [][(lastOp'.op = "list_available" /\ nops' = nops + 1 /\ ~lastOp'.early) =>
          LET exe == lastOp'.exe
              reg == IF lastOp'.dynamic THEN database' ELSE database
              M == {k \in DOMAIN reg : Matches(exe, k)}
              Keep(d) == /\ (lastOp'.name = "" \/ d.name = lastOp'.name)
                         /\ (lastOp'.url = "" \/ d.url = lastOp'.url)
          IN /\ ~lastOp'.raised
             /\ M = {} => lastOp'.ret = (exe :> <<>>)
             /\ M # {} =>
                   /\ DOMAIN lastOp'.ret = M
                   /\ \A k \in M : lastOp'.ret[k] = SelectSeq(reg[k], Keep)]_vars

\* C16 witness: ocrd-a has descriptors in the registry, none of them with the
\* url asked for, and the listing returned (ocrd-a, []).
C16_Witness ==
    /\ lastOp.op = "list_available"
    /\ lastOp.exe = "ocrd-a"
    /\ lastOp.url = "U"
    /\ ~lastOp.raised
    /\ "ocrd-a" \in DOMAIN database
    /\ database["ocrd-a"] # <<>>
    /\ lastOp.ret = ("ocrd-a" :> <<>>)

Contributes(t) ==
    \E i \in 1..Len(ListOf(database, t)) : database[t][i] \in DeclaredSet(t)

\* C17: a list_available with dynamic discovery returns normally whatever the
\* matching executables answer to --dump-json; an executable whose
\* introspection fails contributes no descriptor, and every other matching
\* executable has its declared resources in the registry.
C17_DiscoveryFailureContained ==
    (lastOp.op = "list_available" /\ lastOp.dynamic /\ ~lastOp.early) =>
       /\ ~lastOp.raised
       /\ \A t \in Inspected(toolRes, lastOp.exe) :
             IF DumpKind(dumpJson, t) = "object" THEN Contributes(t) ELSE ~Contributes(t)

\* The part that holds: when every failing executable fails with an OSError
\* or with output that is no JSON, the failure is contained as C17 says.
CaughtFailuresContained ==
    (/\ lastOp.op = "list_available" /\ lastOp.dynamic /\ ~lastOp.early
     /\ \A t \in Inspected(toolRes, lastOp.exe) :
           DumpKind(dumpJson, t) \in {"object", "oserror", "invalid"}) =>
       /\ ~lastOp.raised
       /\ \A t \in Inspected(toolRes, lastOp.exe) :
             IF DumpKind(dumpJson, t) = "object" THEN Contributes(t) ELSE ~Contributes(t)

Listed(t) == lastOp.exe = "" \/ lastOp.exe = t
Returned(t) == {lastOp.ret[t][i] : i \in 1..Len(lastOp.ret[t])}
Unpathed(d) == [d EXCEPT !.path = FALSE]

\* C18: list_installed returns normally, with one pair for every relevant tool
\* and in it, for every resource found on disk (of a type the tool takes), a
\* descriptor of the resource's name that carries 'path'; a stub synthesized
\* for a resource in the module directory is not in the registry, and a stub
\* registered through add_to_user_database is in the user list file.
C18_InstalledCrossReferenced ==
    lastOp.op = "list_installed" =>
       /\ ~lastOp.raised
       /\ \A t \in DOMAIN disk :
             Listed(t) =>
                /\ t \in DOMAIN lastOp.ret
                /\ \A i \in 1..Len(disk[t].found) :
                      ~TypeSkips(disk[t].types, disk[t].found[i].isdir) =>
                         \E d \in Returned(t) : d.name = disk[t].found[i].name /\ d.path
                /\ \A d \in Returned(t) :
                      /\ d.description = "Found at module" =>
                            \A j \in 1..Len(ListOf(database, t)) : database[t][j] # d
                      /\ d.url = "???" =>
                            \E j \in 1..Len(ListOf(userFile.content, t)) :
                               userFile.content[t][j] = Unpathed(d)

(***************************************************************************)
(* list_resource_candidates as a function of its arguments, the            *)
(* environment and the working directory.  A path is a sequence of         *)
(* segments that is absolute or not; a name is a sequence of characters,   *)
(* so that the derivation of the variable name is computed.  None is an    *)
(* argument that was not given.                                            *)
(***************************************************************************)
Path(abs, segs) == [abs |-> abs, segs |-> segs]
EmptyPath == Path(FALSE, <<>>)
None == [none |-> TRUE]

\* os.path.join: an absolute second part discards the first
Join(a, b) == IF b.abs THEN b ELSE Path(a.abs, a.segs \o b.segs)

\* os.py line 120: '%s_PATH' % executable.replace('-', '_').upper(),
\* with str.replace and str.upper on the characters used
ProcessorPathVar(exe) ==
    LET Replace(c) == IF c = "-" THEN "_" ELSE c
        Upper(c) == CASE c = "o" -> "O" [] c = "a" -> "A" [] c = "b" -> "B" [] OTHER -> c
    IN [i \in 1..Len(exe) |-> Upper(Replace(exe[i]))] \o <<"_", "P", "A", "T", "H">>

\* os.py lines 121-122: the directories of the variable, in its order;
\* str.split(':') of a set variable has at least one element
PathDirsFirstOnly(env, var) == IF var \in DOMAIN env THEN <<env[var][1]>> ELSE <<>>
PathDirs(env, var) == IF var \in DOMAIN env THEN env[var] ELSE <<>>

\* ocrd_utils.constants.RESOURCES_DIR_SYSTEM (not among the sources) and
\* config.XDG_DATA_HOME, config.py lines 305-308
ResourcesDirSystem == Path(TRUE, <<"usr", "local", "share", "ocrd-resources">>)
ConfigXdgDataHome == Path(TRUE, <<"home", ".local", "share">>)

\* list_resource_candidates, os.py lines 110-127
ListResourceCandidatesModuleFirst(exe, fname, cwdArg, moduled, xdgArg, env, procCwd) ==
    (IF moduled # None /\ moduled # EmptyPath THEN <<Join(moduled, fname)>> ELSE <<>>)
    \o <<Join(IF cwdArg = None THEN procCwd ELSE cwdArg, fname)>>
    \o [i \in 1..Len(PathDirs(env, ProcessorPathVar(exe))) |->
           Join(PathDirs(env, ProcessorPathVar(exe))[i], fname)]
    \o <<Join(Join(Join(IF xdgArg = None \/ xdgArg = EmptyPath THEN ConfigXdgDataHome ELSE xdgArg,
                        Path(FALSE, <<"ocrd-resources">>)), Path(FALSE, <<exe>>)), fname)>>
    \o <<Join(Join(ResourcesDirSystem, Path(FALSE, <<exe>>)), fname)>>
ListResourceCandidates(exe, fname, cwdArg, moduled, xdgArg, env, procCwd) ==
    LET cwd1 == IF cwdArg = None THEN procCwd ELSE cwdArg
        xdg == IF xdgArg = None \/ xdgArg = EmptyPath THEN ConfigXdgDataHome ELSE xdgArg
        dirs == PathDirs(env, ProcessorPathVar(exe))
    IN <<Join(cwd1, fname)>>
       \o [i \in 1..Len(dirs) |-> Join(dirs[i], fname)]
       \o <<Join(Join(Join(xdg, Path(FALSE, <<"ocrd-resources">>)), Path(FALSE, <<exe>>)), fname)>>
       \o <<Join(Join(ResourcesDirSystem, Path(FALSE, <<exe>>)), fname)>>
       \o (IF moduled # None /\ moduled # EmptyPath THEN <<Join(moduled, fname)>> ELSE <<>>)

ExeA == <<"o", "-", "a">>
ExeAB == <<"o", "-", "a", "-", "b">>
VarA == <<"O", "_", "A", "_", "P", "A", "T", "H">>
VarAB == <<"O", "_", "A", "_", "B", "_", "P", "A", "T", "H">>
DirP == Path(TRUE, <<"p">>)
DirQ == Path(TRUE, <<"q">>)

\* environ: the variable of o-a unset, or holding what split(':') makes of
\* its value (one or more directories, one empty string for an empty
\* value), next to variables under names the derivation must not produce
Environments ==
    LET VarADash == <<"O", "-", "A", "_", "P", "A", "T", "H">>
        VarALower == <<"o", "_", "a", "_", "P", "A", "T", "H">>
        DirDecoy == Path(TRUE, <<"decoy">>)
        PathValues == (SeqsUpTo({DirP, DirQ}, MaxPathDirs) \ {<<>>}) \cup {<<EmptyPath>>}
    IN {<<>>, (VarADash :> <<DirDecoy>>) @@ (VarALower :> <<DirDecoy>>)}
       \cup {(VarA :> v) @@ (VarADash :> <<DirDecoy>>) : v \in PathValues}
       \cup {(VarAB :> <<DirQ>>)}

InitCandidates ==
    rc \in [exe : {ExeA, ExeAB},
            fname : {Path(FALSE, <<"f">>), Path(FALSE, <<"sub", "f">>), Path(TRUE, <<"abs", "f">>)},
            cwdArg : {None, Path(TRUE, <<"w">>)},
            moduled : {None, EmptyPath, Path(TRUE, <<"mod">>)},
            xdgArg : {None, Path(TRUE, <<"data">>)},
            env : Environments,
            procCwd : {Path(TRUE, <<"cwd">>)},
            done : {FALSE},
            out : {<<>>}]

CandidatesApply ==
    /\ ~rc.done
    /\ rc' = [rc EXCEPT !.done = TRUE,
                        !.out = ListResourceCandidates(rc.exe, rc.fname, rc.cwdArg, rc.moduled,
                                                       rc.xdgArg, rc.env, rc.procCwd)]

NextCandidates == CandidatesApply /\ UNCHANGED <<dlVars, regVars, ddVars, thr, arc, ld>>

StartCandidates == InitCandidates /\ DlIdle /\ RegIdle /\ DdIdle /\ AddsIdle /\ ArchivesIdle /\ LoadIdle

SpecCandidates == StartCandidates /\ [][NextCandidates]_vars

ModuleGiven == rc.moduled # None /\ rc.moduled # EmptyPath
\* the variable the tool's name stands for, written out
ExpectedVar == IF rc.exe = ExeA THEN VarA ELSE VarAB
ExpectedDirs == IF ExpectedVar \in DOMAIN rc.env THEN rc.env[ExpectedVar] ELSE <<>>

\* C19 as claimed: five candidates when a module directory is given, four
\* when none is, whatever the tool's path variable holds.
C19_FiveOrFour ==
    rc.done => Len(rc.out) = IF ModuleGiven THEN 5 ELSE 4

\* C19 as amended: three candidates, one more for every directory listed in
\* the tool's path variable (none when it is unset), and one more when a
\* module directory is given; five (or four) only for a variable that lists
\* exactly one directory.
C19_CountFollowsPathVariable ==
    rc.done =>
       /\ Len(rc.out) = 3 + Len(ExpectedDirs) + (IF ModuleGiven THEN 1 ELSE 0)
       /\ Len(ExpectedDirs) = 1 => Len(rc.out) = IF ModuleGiven THEN 5 ELSE 4

\* C19 witness: the variable lists two directories and a module directory is
\* given: six candidates.
C19_Witness ==
    /\ rc.done
    /\ rc.exe = ExeA
    /\ VarA \in DOMAIN rc.env
    /\ rc.env[VarA] = <<DirP, DirQ>>
    /\ ModuleGiven
    /\ Len(rc.out) = 6

\* C20: the candidates are, in this order: fname under the working directory
\* (given or the process's), fname under every directory of the variable
\* named by the executable uppercased with '-' replaced by '_' plus '_PATH',
\* in the variable's order, fname under <data home>/ocrd-resources/<executable>,
\* fname under <system dir>/<executable>, and last fname under the module
\* directory when one is given.
C20_FixedPriorityOrder ==
    rc.done =>
       LET n == Len(ExpectedDirs)
           wd == IF rc.cwdArg = None THEN rc.procCwd ELSE rc.cwdArg
           home == IF rc.xdgArg = None THEN ConfigXdgDataHome ELSE rc.xdgArg
           Under(d) == IF rc.fname.abs THEN rc.fname ELSE Path(d.abs, d.segs \o rc.fname.segs)
       IN /\ Len(rc.out) >= n + 3
          /\ rc.out[1] = Under(wd)
          /\ \A i \in 1..n : rc.out[1 + i] = Under(ExpectedDirs[i])
          /\ rc.out[n + 2] = Under(Path(home.abs, home.segs \o <<"ocrd-resources", rc.exe>>))
          /\ rc.out[n + 3] = Under(Path(TRUE, ResourcesDirSystem.segs \o <<rc.exe>>))
          /\ ModuleGiven => (Len(rc.out) = n + 4 /\ rc.out[n + 4] = Under(rc.moduled))
          /\ ~ModuleGiven => Len(rc.out) = n + 3

\* C20 witness: the variable of o-a lists q before p, a module directory is
\* given, and the five kinds of candidates came out in the order of the claim.
C20_Witness ==
    /\ rc.done
    /\ rc.exe = ExeA
    /\ VarA \in DOMAIN rc.env
    /\ rc.env[VarA] = <<DirQ, DirP>>
    /\ rc.fname = Path(FALSE, <<"f">>)
    /\ rc.moduled = Path(TRUE, <<"mod">>)
    /\ rc.out[2] = Path(TRUE, <<"q", "f">>)
    /\ rc.out[3] = Path(TRUE, <<"p", "f">>)
    /\ rc.out[6] = Path(TRUE, <<"mod", "f">>)

(***************************************************************************)
(* list_all_resources (os.py lines 129-194) as a function of the tool's    *)
(* declared resource_locations, the module directory, the environment and  *)
(* the directories that exist.  Every directory that exists holds the same *)
(* small tree: a file, a directory with a file in it, a source file and a  *)
(* .git directory with a file in it.  An empty entry of the path variable  *)
(* is Path(''), the working directory itself, which always exists.         *)
(***************************************************************************)
\* the locations of tool o-a: its data and system directories, its module
\* directory, and <cwd>/ocrd-resources/o-a of the disabled lines 146-150
LocationDir(loc, xdgArg) ==
    CASE loc = "data" ->
           Path(TRUE, (IF xdgArg = None THEN ConfigXdgDataHome ELSE xdgArg).segs
                      \o <<"ocrd-resources", "o-a">>)
      [] loc = "system" -> Path(TRUE, ResourcesDirSystem.segs \o <<"o-a">>)
      [] loc = "module" -> Path(TRUE, <<"mod">>)
      [] loc = "cwd" -> Path(TRUE, <<"cwd", "ocrd-resources", "o-a">>)

\* iterdir and itertree (os.py lines 249-258) of a directory that exists:
\* the paths below it, relative to it
TreeOf(recursive) ==
    {<<"r.bin">>, <<"d">>, <<"x.py">>, <<".git">>}
    \cup (IF recursive THEN {<<"d", "inner.bin">>, <<".git", "config">>} ELSE {})

\* os.py lines 192-194 sort the pairs as strings; the paths used, in that order
SortedPaths(xdgArg) ==
    LET Rels == <<<<".git">>, <<".git", "config">>, <<"d">>, <<"d", "inner.bin">>,
                  <<"r.bin">>, <<"x.py">>>>
        \* '.', '/cwd/..', '/data/..' or '/home/..', '/mod', '/p', '/q', '/usr/..'
        Bases == <<EmptyPath, LocationDir("cwd", xdgArg), LocationDir("data", xdgArg),
                   LocationDir("module", xdgArg), DirP, DirQ, LocationDir("system", xdgArg)>>
    IN [k \in 1..(Len(Bases) * Len(Rels)) |->
          [base |-> Bases[((k - 1) \div Len(Rels)) + 1],
           path |-> Join(Bases[((k - 1) \div Len(Rels)) + 1],
                         Path(FALSE, Rels[((k - 1) % Len(Rels)) + 1]))]]

\* list_all_resources; policy is the tool's resource_locations, or
\* {"FileNotFoundError"} when get_ocrd_tool_json raises it (lines 137-140);
\* ListAllResourcesEverywhere searches every location whatever the policy
ListAllResourcesOf(searchAll, exe, moduled, xdgArg, env, policy, existing) ==
    LET locations == IF policy = {"FileNotFoundError"} \/ searchAll THEN {"data", "cwd", "system", "module"}
                     ELSE policy
        pathDirs == PathDirs(env, ProcessorPathVar(exe))
        IsData(rel) == rel[Len(rel)] # "x.py" /\ (Len(rel) < 2 \/ rel[Len(rel) - 1] # ".git")
        IsDirRel(rel) == rel \in {<<"d">>, <<".git">>}
        \* how often a pair is appended to candidates
        Count(pr) ==
            (IF pr.base \in existing \cup {EmptyPath} /\ \E r \in TreeOf(FALSE) : pr.path = Join(pr.base, Path(FALSE, r))
             THEN Cardinality({i \in 1..Len(pathDirs) : pathDirs[i] = pr.base})
                  + (IF "data" \in locations /\ pr.base = LocationDir("data", xdgArg) THEN 1 ELSE 0)
                  + (IF "system" \in locations /\ pr.base = LocationDir("system", xdgArg) THEN 1 ELSE 0)
             ELSE 0)
            + (IF /\ "module" \in locations
                  /\ moduled # None /\ moduled # EmptyPath
                  /\ pr.base = moduled /\ moduled \in existing
                  /\ \E r \in TreeOf(TRUE) :
                        /\ pr.path = Join(moduled, Path(FALSE, r))
                        /\ ~IsDirRel(r)
                        /\ IsData(r)
               THEN 1 ELSE 0)
        Named(pr) == pr.path.segs[Len(pr.path.segs)]
        Kept(pr) == Count(pr) > 0 /\ Named(pr) # ".git"
        all == SortedPaths(xdgArg)
        Repeat(pr) == [i \in 1..Count(pr) |-> pr]
        RECURSIVE From(_)
        From(k) == IF k > Len(all) THEN <<>>
                   ELSE (IF Kept(all[k]) THEN Repeat(all[k]) ELSE <<>>) \o From(k + 1)
    IN From(1)
ListAllResourcesEverywhere(exe, moduled, xdgArg, env, policy, existing) ==
    ListAllResourcesOf(TRUE, exe, moduled, xdgArg, env, policy, existing)
ListAllResources(exe, moduled, xdgArg, env, policy, existing) ==
    ListAllResourcesOf(FALSE, exe, moduled, xdgArg, env, policy, existing)

StartListAll ==
    /\ rc \in [exe : {ExeA},
               moduled : {None, EmptyPath, LocationDir("module", None)},
               xdgArg : {None, Path(TRUE, <<"data">>)},
               env : Environments,
               policy : {{"FileNotFoundError"}} \cup SUBSET {"data", "cwd", "system", "module"},
               existing : SUBSET {LocationDir("data", None), LocationDir("system", None),
                                  LocationDir("module", None), LocationDir("cwd", None), DirP},
               done : {FALSE},
               out : {<<>>}]
    /\ DlIdle /\ RegIdle /\ DdIdle /\ AddsIdle /\ ArchivesIdle /\ LoadIdle

ListAllApply ==
    /\ ~rc.done
    /\ rc' = [rc EXCEPT !.done = TRUE,
                        !.out = ListAllResources(rc.exe, rc.moduled, rc.xdgArg, rc.env,
                                                 rc.policy, rc.existing)]

NextListAll == ListAllApply /\ UNCHANGED <<dlVars, regVars, ddVars, thr, arc, ld>>

SpecListAll == StartListAll /\ [][NextListAll]_vars

\* the bases of the returned pairs
BasesReturned == {rc.out[i].base : i \in 1..Len(rc.out)}
\* the directories of the locations the tool declares (all when it is not installed)
DeclaredDirs ==
    {LocationDir(l, rc.xdgArg) :
        l \in (IF rc.policy = {"FileNotFoundError"} THEN {"data", "system", "module"}
               ELSE rc.policy \cap {"data", "system", "module"})}
PathVarDirs == {ExpectedDirs[i] : i \in 1..Len(ExpectedDirs)}

GParseUrl(link) ==
    CASE link = "plain" -> <<FALSE, FALSE>>
      [] link = "share" -> <<TRUE, FALSE>>
      [] link = "download" -> <<TRUE, TRUE>>

StartUnwrap ==
    /\ rc \in [link : {"plain", "share", "download"},
               probe : {"disposition", "page", "ConnectionError"},
               confirm : {"url", "RuntimeError", "FileURLRetrievalError"},
               status : {"ok", "HTTPError"},
               pc : {"parse"},
               url : {"orig"},
               requested : {"none"},
               warned : {FALSE},
               failed : {FALSE}]
    /\ DlIdle /\ RegIdle /\ DdIdle /\ AddsIdle /\ ArchivesIdle /\ LoadIdle

\* lines 266-269
UnwrapParse ==
    /\ rc.pc = "parse"
    /\ rc' = [rc EXCEPT !.url = IF GParseUrl(rc.link)[1] /\ ~GParseUrl(rc.link)[2] THEN "uc" ELSE @,
                        !.pc = IF GParseUrl(rc.link)[1] THEN "probe" ELSE "get"]

\* lines 270-272: the probing request; requests' ConnectionError is an
\* OSError, which line 274 does not catch and line 283 does
UnwrapProbe ==
    /\ rc.pc = "probe"
    /\ rc' = [rc EXCEPT !.pc = CASE rc.probe = "disposition" -> "get"
                                 [] rc.probe = "page" -> "confirm"
                                 [] OTHER -> "raised"]

\* lines 273-275: the confirmation page is resolved, or the resolution fails
\* with a RuntimeError, which is logged, or with another exception class of
\* the library, which reaches line 283
UnwrapConfirm ==
    /\ rc.pc = "confirm"
    /\ rc' = [rc EXCEPT !.url = IF rc.confirm = "url" THEN "confirmed" ELSE @,
                        !.failed = rc.confirm # "url",
                        !.warned = rc.confirm = "RuntimeError",
                        !.pc = IF rc.confirm \in {"url", "RuntimeError"} THEN "get" ELSE "raised"]

\* lines 276-278: the download request for the url as it now stands
UnwrapGet ==
    /\ rc.pc = "get"
    /\ rc' = [rc EXCEPT !.requested = rc.url,
                        !.pc = IF rc.status = "ok" THEN "stream" ELSE "raised"]

NextUnwrap ==
    \/ UnwrapParse /\ UNCHANGED <<dlVars, regVars, ddVars, thr, arc, ld>>
    \/ UnwrapProbe /\ UNCHANGED <<dlVars, regVars, ddVars, thr, arc, ld>>
    \/ UnwrapConfirm /\ UNCHANGED <<dlVars, regVars, ddVars, thr, arc, ld>>
    \/ UnwrapGet /\ UNCHANGED <<dlVars, regVars, ddVars, thr, arc, ld>>

SpecUnwrap == StartUnwrap /\ [][NextUnwrap]_vars

\* C23: once the resolution of the confirmation page has failed, a warning
\* was logged, the failure did not end the download, and the url requested
\* afterwards is the caller's.
C23_ResolutionFailureNonFatal ==
    rc.failed =>
       /\ rc.warned
       /\ rc.pc \in {"get", "stream"} \/ rc.requested # "none"
       /\ rc.requested \in {"none", "orig"}

(***************************************************************************)
(* The destination of download_resource (resource_manager.py lines         *)
(* 355-366 and 381) as a function of its arguments.  The path of the url   *)
(* is a sequence of tokens: "/", the letters "a" and "b", and the escapes  *)
(* "%2F" (a slash) and "%20" (a space).  A path segment is a sequence of   *)
(* tokens.                                                                 *)
(***************************************************************************)
\* urllib.parse.unquote
UnquoteNothing(tokens) == tokens
Unquote(tokens) ==
    [i \in 1..Len(tokens) |->
        CASE tokens[i] = "%2F" -> "/" [] tokens[i] = "%20" -> " " [] OTHER -> tokens[i]]

\* Path(...).name: the last component, slashes at the end left aside; empty
\* when there is no component
PathName(chars) ==
    LET last == IF \E i \in 1..Len(chars) : chars[i] # "/"
                THEN CHOOSE i \in 1..Len(chars) :
                        chars[i] # "/" /\ \A j \in (i + 1)..Len(chars) : chars[j] = "/"
                ELSE 0
        first == IF \E i \in 1..last : chars[i] = "/"
                 THEN 1 + CHOOSE i \in 1..last :
                            chars[i] = "/" /\ \A j \in (i + 1)..last : chars[j] # "/"
                 ELSE 1
    IN SubSeq(chars, first, last)

\* lines 355-360 and 381: fpath, which both returns give back
DownloadDestination(basedir, executable, noSubdir, name, urlPath) ==
    LET destdir == IF noSubdir THEN basedir ELSE Join(basedir, Path(FALSE, <<executable>>))
        derived == PathName(Unquote(urlPath))
        named == IF name # None /\ name # EmptyPath THEN name
                 ELSE IF derived = <<>> THEN EmptyPath ELSE Path(FALSE, <<derived>>)
    IN Join(destdir, named)

StartDestination ==
    /\ rc \in [basedir : {Path(TRUE, <<<<"base">>>>), Path(FALSE, <<<<"models">>>>)},
               executable : {<<"ocrd-x">>},
               noSubdir : BOOLEAN,
               name : {None, EmptyPath, Path(FALSE, <<<<"n">>>>), Path(FALSE, <<<<"sub">>, <<"n">>>>)},
               urlPath : SeqsUpTo({"/", "a", "b", "%2F", "%20"}, MaxUrlLen),
               skip : BOOLEAN,
               done : {FALSE},
               out : {EmptyPath}]
    /\ DlIdle /\ RegIdle /\ DdIdle /\ AddsIdle /\ ArchivesIdle /\ LoadIdle

\* the call returns fpath at line 366 (rc.skip: the destination exists and
\* overwrite is not set) or at line 381
DestinationApply ==
    /\ ~rc.done
    /\ rc' = [rc EXCEPT !.done = TRUE,
                        !.out = DownloadDestination(rc.basedir, rc.executable, rc.noSubdir,
                                                    rc.name, rc.urlPath)]

NextDestination == DestinationApply /\ UNCHANGED <<dlVars, regVars, ddVars, thr, arc, ld>>

SpecDestination == StartDestination /\ [][NextDestination]_vars

\* the directory the resource goes to, and the name when one is given
DestDirExpected ==
    IF rc.noSubdir THEN rc.basedir.segs ELSE rc.basedir.segs \o <<rc.executable>>
NameGiven == rc.name # None /\ rc.name # EmptyPath
\* the tokens after the last "/" of the url's path
FinalSegment ==
    LET slashes == {i \in 1..Len(rc.urlPath) : rc.urlPath[i] = "/"}
        from == IF slashes = {} THEN 1 ELSE 1 + CHOOSE i \in slashes : \A j \in slashes : j <= i
    IN SubSeq(rc.urlPath, from, Len(rc.urlPath))
Decoded(t) == IF t = "%2F" THEN "/" ELSE IF t = "%20" THEN " " ELSE t

\* C25 as claimed: the returned path is basedir/executable/name, or
\* basedir/name with no_subdir, where name is the given name or else the
\* final path segment of the url, percent-decoded.
C25_DestinationFromFinalSegment ==
    rc.done =>
       /\ rc.out.abs = rc.basedir.abs
       /\ rc.out.segs = DestDirExpected \o
             (IF NameGiven THEN rc.name.segs
              ELSE IF FinalSegment = <<>> THEN <<>>
              ELSE <<[i \in 1..Len(FinalSegment) |-> Decoded(FinalSegment[i])]>>)

\* C25 as amended: the returned path is basedir/executable/name, or
\* basedir/name with no_subdir, on the soft no-op as after a transfer, where
\* name is the given name or else the last component of the percent-decoded
\* path of the url: the path is decoded first, so that an encoded slash
\* separates components, and slashes at its end are left aside; a path
\* without any component gives the directory itself.
C25_DestinationFromDecodedPath ==
    rc.done =>
       /\ rc.out.abs = rc.basedir.abs
       /\ NameGiven => rc.out.segs = DestDirExpected \o rc.name.segs
       /\ ~NameGiven =>
            LET dec == [i \in 1..Len(rc.urlPath) |-> Decoded(rc.urlPath[i])]
            IN IF \A i \in 1..Len(dec) : dec[i] = "/"
               THEN rc.out.segs = DestDirExpected
               ELSE \E n \in SeqsUpTo({"a", "b", " "}, Len(dec)) \ {<<>>} :
                    \E k \in 0..Len(dec), m \in 0..Len(dec) :
                       /\ k + Len(n) + m = Len(dec)
                       /\ SubSeq(dec, k + 1, k + Len(n)) = n
                       /\ k > 0 => dec[k] = "/"
                       /\ \A i \in (k + Len(n) + 1)..Len(dec) : dec[i] = "/"
                       /\ rc.out.segs = DestDirExpected \o <<n>>

\* C25 witness: no name is given, the url's path ends in a segment with an
\* encoded space, and the call took the soft no-op: the destination is the
\* decoded segment under basedir/executable.
C25_Witness ==
    /\ rc.done
    /\ rc.skip
    /\ rc.name = None
    /\ ~rc.noSubdir
    /\ rc.urlPath = <<"/", "a", "%20">>
    /\ rc.out = Path(rc.basedir.abs, rc.basedir.segs \o <<rc.executable, <<"a", " ">>>>)

====
